---- MODULE Spec2Model ----
(***************************************************************************)
(* Model of the F1 data pipeline: the watermark store (metadata.py), the   *)
(* loader template BaseLoader.run and the entity loaders (loaders/), and   *)
(* the orchestrator F1Pipeline (main.py) over the registry of config.py.   *)
(*                                                                         *)
(* Time is counted in ticks, TicksPerDay ticks to the day; a date is a day *)
(* number, a timestamp a tick number.  Day 0 is January 1st of FirstYear   *)
(* and a year has DaysPerYear days.  Python's None and SQL's NULL are NULL.*)
(***************************************************************************)
EXTENDS Integers, Sequences, FiniteSets, TLC

VARIABLES
    now,          \* the clock: NOW() in ticks
    sync_status,  \* metadata.sync_status: entity -> row (present or not)
    sync_log,     \* metadata.sync_log: sequence of rows, the id is the index
    tables,       \* the warehouse: entity -> set of rows
    id_seq,       \* the identifier sequence of each bulk table
    pc,           \* position of the pipeline process
    inv,          \* the invocation being served (run_mode / run_table)
    queue,        \* run_mode: tables still to process
    results,      \* run_mode: the summary being built
    cur,          \* BaseLoader.run: locals of the run in progress
    used,         \* bookkeeping of the bounds: invocations and faults so far
    loaded_ok,    \* history: entity -> seasons for which load() committed
    probe         \* last direct call of a store / loader function and its result

dbVars   == <<sync_status, sync_log, tables, id_seq>>
procVars == <<pc, inv, queue, results, cur, used, loaded_ok>>
vars     == <<now, sync_status, sync_log, tables, id_seq,
              pc, inv, queue, results, cur, used, loaded_ok, probe>>

NULL == -1

-----------------------------------------------------------------------------
(* Bounds of the model *)

FirstYear   == 2024
DaysPerYear == 3
TicksPerDay == 2
MaxDay      == 6
MaxRound    == 2

(* Program constants *)

BufferDays  == 3
GraceDays   == 1

Years  == {FirstYear, FirstYear + 1}
Ticks  == 0..((MaxDay + 1) * TicksPerDay - 1)

YearOf(date) == FirstYear + (date \div DaysPerYear)
Today        == now \div TicksPerDay
Midnight(date) == date * TicksPerDay

-----------------------------------------------------------------------------
(* config.py: the registry *)

PreSeasonEntities ==
    {"circuit", "season", "team", "round", "session", "driver", "team_driver"}
PostRaceEntities ==
    {"sprint_result", "qualifying_result", "race_result",
     "driver_championship", "team_championship"}
Entities == PreSeasonEntities \cup PostRaceEntities

Strategy(e) == IF e \in PreSeasonEntities THEN "pre_season" ELSE "post_race"

Dependencies(e) ==
    CASE e = "circuit"             -> {}
      [] e = "season"              -> {}
      [] e = "team"                -> {"season"}
      [] e = "round"               -> {"season", "circuit"}
      [] e = "session"             -> {"round"}
      [] e = "driver"              -> {}
      [] e = "team_driver"         -> {"driver", "team", "season"}
      [] e = "sprint_result"       -> {"team", "round", "session"}
      [] e = "qualifying_result"   -> {"team", "round", "session"}
      [] e = "race_result"         -> {"team", "round", "session"}
      [] e = "driver_championship" -> {"driver", "round", "session"}
      [] e = "team_championship"   -> {"team", "round", "session"}

LOAD_ORDER ==
    <<"circuit", "season", "team", "round", "session", "driver", "team_driver",
      "sprint_result", "qualifying_result", "race_result",
      "driver_championship", "team_championship">>

Modes == {"all", "pre_season", "post_race"}

LOAD_MODES_team_first(mode) ==
    CASE mode = "all"        -> LOAD_ORDER
      [] mode = "pre_season" ->
            <<"circuit", "team", "season", "round", "session", "driver",
              "team_driver">>
      [] mode = "post_race"  ->
            <<"sprint_result", "qualifying_result", "race_result",
              "driver_championship", "team_championship">>
      [] OTHER               -> <<>>

(* a mode that is not defined is taken as the full order *)
LOAD_MODES_default_all(mode) ==
    CASE mode = "all"        -> LOAD_ORDER
      [] mode = "pre_season" ->
            <<"circuit", "season", "round", "session", "team", "driver",
              "team_driver">>
      [] mode = "post_race"  ->
            <<"sprint_result", "qualifying_result", "race_result",
              "driver_championship", "team_championship">>
      [] OTHER               -> LOAD_ORDER

LOAD_MODES(mode) ==
    CASE mode = "all"        -> LOAD_ORDER
      [] mode = "pre_season" ->
            <<"circuit", "season", "round", "session", "team", "driver",
              "team_driver">>
      [] mode = "post_race"  ->
            <<"sprint_result", "qualifying_result", "race_result",
              "driver_championship", "team_championship">>
      [] OTHER               -> <<>>

-----------------------------------------------------------------------------
(* metadata.py: the watermark store, read side *)

NoRow ==
    [present |-> FALSE, status |-> "idle", last_sync |-> NULL,
     season_year |-> NULL, round_number |-> NULL, total_records |-> 0,
     error |-> "NULL"]
FreshRow == [NoRow EXCEPT !.present = TRUE]

get_watermark(e) ==
    IF sync_status[e].present
    THEN [season_year   |-> sync_status[e].season_year,
          round_number  |-> sync_status[e].round_number,
          last_sync     |-> sync_status[e].last_sync,
          total_records |-> sync_status[e].total_records]
    ELSE [season_year |-> NULL, round_number |-> NULL,
          last_sync |-> NULL, total_records |-> 0]

RoundsOf(season) == {r \in tables["round"] : YearOf(r.date) = season}

Latest(rs) == CHOOSE r \in rs : \A q \in rs : q.date <= r.date

HasSprint(r) ==
    \E s \in tables["session"] : s.type = "SR" /\ s.round_id = r.id

_was_there_race_since_last_sync_strict(season_year, last_sync) ==
    LET old == {r \in RoundsOf(season_year) : r.date < Today - BufferDays}
    IN  IF old = {} THEN FALSE
        ELSE Midnight(Latest(old).date) > last_sync - GraceDays * TicksPerDay

_was_there_race_since_last_sync(season_year, last_sync) ==
    LET old == {r \in RoundsOf(season_year) : r.date <= Today - BufferDays}
    IN  IF old = {} THEN FALSE
        ELSE Midnight(Latest(old).date) > last_sync - GraceDays * TicksPerDay

_was_there_sprint_since_last_sync(season_year, last_sync) ==
    LET old == {r \in RoundsOf(season_year) :
                    HasSprint(r) /\ r.date <= Today - BufferDays}
    IN  IF old = {} THEN FALSE
        ELSE Midnight(Latest(old).date) > last_sync - GraceDays * TicksPerDay

should_load_no_first_sync(entity_name, current_season) ==
    LET watermark == get_watermark(entity_name)
    IN  IF entity_name \notin Entities THEN FALSE
        ELSE IF Strategy(entity_name) = "pre_season"
        THEN watermark.season_year = NULL
             \/ watermark.season_year < current_season
        ELSE IF entity_name = "sprint_result"
        THEN _was_there_sprint_since_last_sync(current_season,
                                               watermark.last_sync)
        ELSE _was_there_race_since_last_sync(current_season,
                                             watermark.last_sync)

should_load_season_le(entity_name, current_season) ==
    LET watermark == get_watermark(entity_name)
    IN  IF entity_name \notin Entities THEN FALSE
        ELSE IF watermark.last_sync = NULL THEN TRUE
        ELSE IF Strategy(entity_name) = "pre_season"
        THEN watermark.season_year = NULL
             \/ watermark.season_year <= current_season
        ELSE IF entity_name = "sprint_result"
        THEN _was_there_sprint_since_last_sync(current_season,
                                               watermark.last_sync)
        ELSE _was_there_race_since_last_sync(current_season,
                                             watermark.last_sync)

should_load(entity_name, current_season) ==
    LET watermark == get_watermark(entity_name)
    IN  IF entity_name \notin Entities THEN FALSE
        ELSE IF watermark.last_sync = NULL THEN TRUE
        ELSE IF Strategy(entity_name) = "pre_season"
        THEN watermark.season_year = NULL
             \/ watermark.season_year < current_season
        ELSE IF entity_name = "sprint_result"
        THEN _was_there_sprint_since_last_sync(current_season,
                                               watermark.last_sync)
        ELSE _was_there_race_since_last_sync(current_season,
                                             watermark.last_sync)

MaxRoundOf(season) ==
    IF RoundsOf(season) = {} THEN 0
    ELSE LET top == CHOOSE r \in RoundsOf(season) :
                        \A q \in RoundsOf(season) : q.number <= r.number
         IN  top.number

(* the round recorded is asked for again instead of the one after it *)
get_next_round_to_load_again(entity_name, current_season) ==
    LET watermark  == get_watermark(entity_name)
        last_season == watermark.season_year
        last_round  == watermark.round_number
    IN  IF last_round = NULL \/ last_season < current_season THEN 1
        ELSE IF last_round <= MaxRoundOf(current_season) THEN last_round
        ELSE NULL

(* `last_season < current_season` with last_season None raises TypeError *)
get_next_round_raises(entity_name) ==
    LET watermark == get_watermark(entity_name)
    IN  watermark.round_number # NULL /\ watermark.season_year = NULL

get_next_round_to_load_no_season(entity_name, current_season) ==
    LET watermark  == get_watermark(entity_name)
        last_round  == watermark.round_number
    IN  IF last_round = NULL THEN 1
        ELSE IF last_round < MaxRoundOf(current_season) THEN last_round + 1
        ELSE NULL

get_next_round_to_load_le(entity_name, current_season) ==
    LET watermark  == get_watermark(entity_name)
        last_season == watermark.season_year
        last_round  == watermark.round_number
    IN  IF last_round = NULL \/ last_season < current_season THEN 1
        ELSE IF last_round <= MaxRoundOf(current_season) THEN last_round + 1
        ELSE NULL

get_next_round_to_load(entity_name, current_season) ==
    LET watermark  == get_watermark(entity_name)
        last_season == watermark.season_year
        last_round  == watermark.round_number
    IN  IF last_round = NULL \/ last_season < current_season THEN 1
        ELSE IF last_round < MaxRoundOf(current_season) THEN last_round + 1
        ELSE NULL

-----------------------------------------------------------------------------
(* metadata.py: the watermark store, write side.  Each call commits. *)

LogRow(entity_name) ==
    [entity_name |-> entity_name, status |-> "running",
     records_affected |-> NULL, error_message |-> "NULL"]

(* start_sync: UPDATE sync_status (no row, no effect), INSERT sync_log *)
start_sync_status(entity_name) ==
    IF sync_status[entity_name].present
    THEN [sync_status EXCEPT ![entity_name].status = "running"]
    ELSE sync_status

start_sync_log(entity_name) == Append(sync_log, LogRow(entity_name))

Truthy(v) == v # NULL /\ v # 0

LogOf(log_id) == sync_log[log_id]

(* an UPDATE of sync_log WHERE entity_name = the row's entity *)
complete_sync_log_by_entity(log_id, success, records_affected, error_message) ==
    IF log_id \in 1..Len(sync_log)
    THEN [i \in 1..Len(sync_log) |->
            IF sync_log[i].entity_name = sync_log[log_id].entity_name
            THEN [sync_log[i] EXCEPT
                      !.status = IF success THEN "success" ELSE "failed",
                      !.records_affected = records_affected,
                      !.error_message = error_message]
            ELSE sync_log[i]]
    ELSE sync_log

(* complete_sync: the UPDATE of sync_log WHERE id = log_id *)
complete_sync_log(log_id, success, records_affected, error_message) ==
    IF log_id \in 1..Len(sync_log)
    THEN [sync_log EXCEPT ![log_id] =
            [@ EXCEPT !.status = IF success THEN "success" ELSE "failed",
                      !.records_affected = records_affected,
                      !.error_message = error_message]]
    ELSE sync_log

(* the failure stamps the sync time like a success *)
complete_sync_status_stamps_failure(entity_name, success, records_affected, error_message, wm_year, wm_round) ==
    IF ~sync_status[entity_name].present THEN sync_status
    ELSE IF success
    THEN [sync_status EXCEPT ![entity_name] =
            [@ EXCEPT !.status = "success",
                      !.last_sync = now,
                      !.total_records = @ + records_affected,
                      !.error = "NULL",
                      !.season_year = IF Truthy(wm_year) THEN wm_year ELSE @,
                      !.round_number = IF Truthy(wm_round) THEN wm_round ELSE @]]
    ELSE [sync_status EXCEPT ![entity_name] =
            [@ EXCEPT !.status = "failed", !.last_sync = now,
                      !.error = error_message]]

(* complete_sync: the UPDATE of sync_status WHERE entity_name = ...;
   wm_year / wm_round are the watermark dict's entries, NULL when absent *)
complete_sync_status_overwrite(entity_name, success, records_affected, error_message, wm_year, wm_round) ==
    IF ~sync_status[entity_name].present THEN sync_status
    ELSE IF success
    THEN [sync_status EXCEPT ![entity_name] =
            [@ EXCEPT !.status = "success",
                      !.last_sync = now,
                      !.total_records = records_affected,
                      !.error = "NULL",
                      !.season_year = wm_year,
                      !.round_number = wm_round]]
    ELSE [sync_status EXCEPT ![entity_name] =
            [@ EXCEPT !.status = "failed", !.error = error_message]]

complete_sync_status(entity_name, success, records_affected, error_message, wm_year, wm_round) ==
    IF ~sync_status[entity_name].present THEN sync_status
    ELSE IF success
    THEN [sync_status EXCEPT ![entity_name] =
            [@ EXCEPT !.status = "success",
                      !.last_sync = now,
                      !.total_records = @ + records_affected,
                      !.error = "NULL",
                      !.season_year = IF Truthy(wm_year) THEN wm_year ELSE @,
                      !.round_number = IF Truthy(wm_round) THEN wm_round ELSE @]]
    ELSE [sync_status EXCEPT ![entity_name] =
            [@ EXCEPT !.status = "failed", !.error = error_message]]

-----------------------------------------------------------------------------
(* The remote source: the bulk archive and the per-round endpoints *)

ArchiveRounds ==
    <<[id |-> 1, date |-> 0, number |-> 1],
      [id |-> 2, date |-> 1, number |-> 2],
      [id |-> 3, date |-> DaysPerYear, number |-> 1]>>

Archive(e) ==
    CASE e = "circuit"     -> <<[id |-> 1]>>
      [] e = "season"      -> <<[id |-> 1, year |-> FirstYear],
                                [id |-> 2, year |-> FirstYear + 1]>>
      [] e = "team"        -> <<[id |-> 1, reference |-> "t1"]>>
      [] e = "round"       -> ArchiveRounds
      [] e = "session"     ->
            <<[id |-> 1, round_id |-> 1, type |-> "Q3", number |-> 4],
              [id |-> 2, round_id |-> 1, type |-> "SR", number |-> 3],
              [id |-> 3, round_id |-> 1, type |-> "R",  number |-> 5],
              [id |-> 4, round_id |-> 2, type |-> "Q3", number |-> 4],
              [id |-> 5, round_id |-> 2, type |-> "R",  number |-> 5],
              [id |-> 6, round_id |-> 3, type |-> "Q3", number |-> 4],
              [id |-> 7, round_id |-> 3, type |-> "R",  number |-> 5]>>
      [] e = "driver"      -> <<[id |-> 1, reference |-> "d1"],
                                [id |-> 2, reference |-> "d2"]>>
      [] e = "team_driver" -> <<[id |-> 1]>>

(* what the API holds for a round: one entry per classified driver (per
   constructor for the constructor standings) *)
RemoteEntries(e) ==
    IF e = "team_championship"
    THEN <<[driver |-> "NULL", constructor |-> "t1", val |-> 1, grid |-> 0]>>
    ELSE <<[driver |-> "d1", constructor |-> "t1", val |-> 1, grid |-> 1],
           [driver |-> "d2", constructor |-> "t1", val |-> 2, grid |-> 2]>>

HeldRounds(year) ==
    {r \in {ArchiveRounds[i] : i \in 1..Len(ArchiveRounds)} :
        YearOf(r.date) = year /\ r.date <= Today}

SprintRoundIds == {1}

NoRaces == [shape |-> "norace", season |-> NULL, round |-> NULL, entries |-> <<>>]
Falsy   == [shape |-> "falsy",  season |-> NULL, round |-> NULL, entries |-> <<>>]
Zip     == [shape |-> "zip",    season |-> NULL, round |-> NULL, entries |-> <<>>]
Data(e, year, round) ==
    [shape |-> "data", season |-> year, round |-> round,
     entries |-> RemoteEntries(e)]

LastHeld(year) ==
    CHOOSE n \in {r.number : r \in HeldRounds(year)} :
        \A r \in HeldRounds(year) : r.number <= n

(* api_client: the response of the endpoint of entity e for (year, round_num).
   A round that was not held, or a path with no round, is answered with the
   not-found sentinel; the standings endpoints without a round answer with
   the standings after the last round held. *)
ApiResponse(e, year, round_num) ==
    IF round_num = NULL
    THEN IF e \in {"driver_championship", "team_championship"}
              /\ HeldRounds(year) # {}
         THEN Data(e, year, LastHeld(year))
         ELSE NoRaces
    ELSE IF \E r \in HeldRounds(year) :
                /\ r.number = round_num
                /\ (e = "sprint_result" => r.id \in SprintRoundIds)
         THEN Data(e, year, round_num)
         ELSE NoRaces

-----------------------------------------------------------------------------
(* loaders/base_loader.py: _build_lookup_maps; a missing key gives NULL *)

Lookup(matched) ==
    IF matched = {} THEN NULL ELSE (CHOOSE r \in matched : TRUE).id

driver_map(ref) == Lookup({r \in tables["driver"] : r.reference = ref})
team_map(ref)   == Lookup({r \in tables["team"] : r.reference = ref})
season_map(year) == Lookup({r \in tables["season"] : r.year = year})
round_map(year, number) ==
    Lookup({r \in tables["round"] :
                YearOf(r.date) = year /\ r.number = number})
session_map(session_type, round_id) ==
    Lookup({r \in tables["session"] :
                r.type = session_type /\ r.round_id = round_id})

SessionType(e) ==
    CASE e = "qualifying_result" -> "Q3"
      [] e = "sprint_result"     -> "SR"
      [] OTHER                   -> "R"

ResultLoaders   == {"qualifying_result", "sprint_result", "race_result"}
StandingLoaders == {"driver_championship", "team_championship"}

-----------------------------------------------------------------------------
(* loaders/__init__.py: transform of the result and standing loaders *)

(* `StandingsLists[0]` of a payload without standings: IndexError;
   `session_map.get(round_id)['id']` without a session: TypeError *)
TransformRaises(e, raw) ==
    \/ raw.shape = "falsy"
    \/ e \in StandingLoaders /\ raw.shape = "norace"
    \/ /\ raw.shape = "data"
       /\ session_map(SessionType(e), round_map(raw.season, raw.round)) = NULL

Record(e, raw, entry) ==
    [season_id  |-> season_map(raw.season),
     round_id   |-> round_map(raw.season, raw.round),
     session_id |-> session_map(SessionType(e),
                                round_map(raw.season, raw.round)),
     driver_id  |-> IF e = "team_championship" THEN NULL
                    ELSE driver_map(entry.driver),
     team_id    |-> IF e = "driver_championship" THEN NULL
                    ELSE team_map(entry.constructor),
     mut        |-> entry.val,
     fix        |-> IF e = "race_result" THEN entry.grid ELSE 0]

(* the result loaders skip an entry whose driver or constructor is unknown *)
Kept(e, rec) ==
    e \in ResultLoaders => (Truthy(rec.driver_id) /\ Truthy(rec.team_id))

RECURSIVE Records(_, _, _)
Records(e, raw, entries) ==
    IF entries = <<>> THEN <<>>
    ELSE LET rec == Record(e, raw, Head(entries))
         IN  (IF Kept(e, rec) THEN <<rec>> ELSE <<>>)
             \o Records(e, raw, Tail(entries))

transform(e, raw) ==
    IF raw.shape = "norace" THEN <<>> ELSE Records(e, raw, raw.entries)

-----------------------------------------------------------------------------
(* loaders/__init__.py: load of the result and standing loaders.
   A table is the sequence of its rows in insertion order. *)

KeyOf(e, rec) ==
    <<rec.season_id, rec.round_id,
      IF e = "team_championship" THEN rec.team_id ELSE rec.driver_id>>

HasNull(key) == \E i \in 1..Len(key) : key[i] = NULL

(* rows in conflict with rec on the natural key; NULL conflicts with nothing *)
Conflicts(e, tbl, rec) ==
    {i \in 1..Len(tbl) :
        ~HasNull(KeyOf(e, rec)) /\ KeyOf(e, tbl[i]) = KeyOf(e, rec)}

(* INSERT ... ON CONFLICT (natural key) DO UPDATE SET the mutable columns *)
Upsert(e, tbl, rec) ==
    IF Conflicts(e, tbl, rec) = {} THEN Append(tbl, rec)
    ELSE [i \in 1..Len(tbl) |->
            IF i \in Conflicts(e, tbl, rec)
            THEN [tbl[i] EXCEPT !.mut = rec.mut]
            ELSE tbl[i]]

RECURSIVE UpsertAll(_, _, _)
UpsertAll(e, tbl, records) ==
    IF records = <<>> THEN tbl
    ELSE UpsertAll(e, Upsert(e, tbl, Head(records)), Tail(records))

(* load(records) where the execute of record fail_at raises (0: none does):
   the rows written so far are pending until commit; rollback drops them *)
LoadCommitsOnError(e, tbl, records, fail_at) ==
    LET done == IF fail_at = 0 THEN Len(records) ELSE fail_at - 1
        pending == UpsertAll(e, tbl, SubSeq(records, 1, done))
    IN  [table |-> pending, count |-> done, raised |-> fail_at # 0]

Load(e, tbl, records, fail_at) ==
    LET done == IF fail_at = 0 THEN Len(records) ELSE fail_at - 1
        pending == UpsertAll(e, tbl, SubSeq(records, 1, done))
    IN  IF fail_at = 0
        THEN [table |-> pending, count |-> done, raised |-> FALSE]
        ELSE [table |-> tbl, count |-> 0, raised |-> TRUE]

(* PreSeasonLoader.load: the append-only diff against the archive's table *)
RECURSIVE InsertNew(_, _)
InsertNew(tbl, rows) ==
    IF rows = <<>> THEN tbl
    ELSE InsertNew(IF \E r \in tbl : r.id = Head(rows).id THEN tbl
                   ELSE tbl \cup {Head(rows)}, Tail(rows))

MaxId(tbl) ==
    IF tbl = {} THEN 0
    ELSE CHOOSE n \in {r.id : r \in tbl} : \A r \in tbl : r.id <= n

Suffix(seq, n) == SubSeq(seq, Len(seq) - n + 1, Len(seq))

BulkLoadHead(e, tbl, seqval, df, fail_at) ==
    LET count == Len(df) - Cardinality(tbl)
        diff  == IF count > 0 THEN SubSeq(df, 1, count) ELSE <<>>
        pending == InsertNew(tbl, diff)
    IN  IF fail_at # 0
        THEN [table |-> tbl, seq |-> seqval, count |-> 0, raised |-> TRUE]
        ELSE [table |-> pending,
              seq |-> IF count > 0 THEN MaxId(pending) ELSE seqval,
              count |-> count, raised |-> FALSE]

BulkLoad(e, tbl, seqval, df, fail_at) ==
    LET count == Len(df) - Cardinality(tbl)
        diff  == IF count > 0 THEN Suffix(df, count) ELSE <<>>
        pending == InsertNew(tbl, diff)
    IN  IF fail_at # 0
        THEN [table |-> tbl, seq |-> seqval, count |-> 0, raised |-> TRUE]
        ELSE [table |-> pending,
              seq |-> IF count > 0 THEN MaxId(pending) ELSE seqval,
              count |-> count, raised |-> FALSE]

-----------------------------------------------------------------------------
(* Bounds of the pipeline runs *)

MaxInvocations == 1
MaxFaults      == 1

StartDay == BufferDays

NoCur ==
    [entity |-> "NULL", year |-> NULL, round_num |-> NULL, raw_zip |-> FALSE,
     log_id |-> NULL, raw |-> Falsy, records |-> <<>>, count |-> 0,
     exc |-> "NULL", failed_in |-> "NULL", fail_at |-> 0, ret |-> "NULL",
     load_called |-> FALSE, snap |-> <<>>]

NoInv ==
    [kind |-> "NULL", mode |-> "NULL", table |-> "NULL", year |-> NULL,
     round_num |-> NULL, force |-> FALSE, raw_zip |-> FALSE,
     outcome |-> "NULL", cli_year |-> NULL]

NoResults ==
    [tables_processed |-> 0, tables_succeeded |-> 0, tables_failed |-> 0,
     tables_skipped |-> 0, details |-> <<>>]

NoProbe ==
    [fn |-> "NULL", entity |-> "NULL", season |-> NULL, should |-> FALSE,
     next_round |-> NULL, calls |-> 0,
     args |-> [success |-> FALSE, records_affected |-> 0,
               error_message |-> "NULL", wm_year |-> NULL, wm_round |-> NULL],
     result |-> <<>>, log_id |-> NULL]

CanFault == used.faults < MaxFaults
Fault    == [used EXCEPT !.faults = @ + 1]

-----------------------------------------------------------------------------
(* loaders/base_loader.py: BaseLoader.run, one action per step *)

(* Python's `not raw_data` and `not records` *)
NotRawNever(raw) == FALSE
NotRaw(raw) == raw.shape = "falsy"
NotRecords(records) == records = <<>>

(* the complete_sync call of run for the log row it opened *)
CompleteSync(success, records_affected, error_message, wm_year, wm_round) ==
    /\ sync_log' = complete_sync_log(cur.log_id, success, records_affected,
                                     error_message)
    /\ sync_status' = complete_sync_status(cur.entity, success,
                          records_affected, error_message, wm_year, wm_round)

(* start_sync as a lock: it waits while the entity is 'running' *)
StartSyncLocked ==
    /\ pc = "start_sync"
    /\ sync_status[cur.entity].status # "running"
    /\ sync_status' = start_sync_status(cur.entity)
    /\ sync_log' = start_sync_log(cur.entity)
    /\ cur' = [cur EXCEPT !.log_id = Len(sync_log) + 1]
    /\ pc' = "extract"
    /\ UNCHANGED <<now, tables, id_seq, inv, queue, results, used, loaded_ok,
                   probe>>

StartSync ==
    /\ pc = "start_sync"
    /\ sync_status' = start_sync_status(cur.entity)
    /\ sync_log' = start_sync_log(cur.entity)
    /\ cur' = [cur EXCEPT !.log_id = Len(sync_log) + 1]
    /\ pc' = "extract"
    /\ UNCHANGED <<now, tables, id_seq, inv, queue, results, used, loaded_ok,
                   probe>>

(* what extract returns when it does not raise *)
Extracted(falsy) ==
    IF cur.raw_zip \/ cur.entity \in PreSeasonEntities THEN Zip
    ELSE IF falsy THEN Falsy
    ELSE ApiResponse(cur.entity, cur.year, cur.round_num)

(* lines 99-117: extract (or the shared archive), then the empty check *)
Extract(falsy) ==
    /\ pc = "extract"
    /\ falsy => (CanFault /\ ~cur.raw_zip /\ cur.entity \in PostRaceEntities)
    /\ used' = IF falsy THEN Fault ELSE used
    /\ LET raw == Extracted(falsy)
       IN  IF NotRaw(raw)
           THEN /\ CompleteSync(TRUE, 0, "NULL", NULL, NULL)
                /\ cur' = [cur EXCEPT !.raw = raw, !.ret = "True"]
                /\ pc' = "returned"
           ELSE /\ cur' = [cur EXCEPT !.raw = raw]
                /\ pc' = "transform"
                /\ UNCHANGED <<sync_status, sync_log>>
    /\ UNCHANGED <<now, tables, id_seq, inv, queue, results, loaded_ok, probe>>

(* extract raises: exhausted retries, a client error, a failed download *)
ExtractRaises ==
    /\ pc = "extract"
    /\ ~cur.raw_zip
    /\ CanFault
    /\ used' = Fault
    /\ cur' = [cur EXCEPT !.exc = "SourceError", !.failed_in = "extract"]
    /\ pc' = "except"
    /\ UNCHANGED <<now, dbVars, inv, queue, results, loaded_ok, probe>>

(* the empty check of the transform records the run's year and round *)
TransformRecordsEmpty ==
    /\ pc = "transform"
    /\ IF cur.entity \in PreSeasonEntities
       THEN /\ cur' = [cur EXCEPT !.records = Archive(cur.entity),
                                  !.snap = tables]
            /\ pc' = "load"
            /\ UNCHANGED <<sync_status, sync_log>>
       ELSE IF TransformRaises(cur.entity, cur.raw)
       THEN /\ cur' = [cur EXCEPT !.exc = "TransformError",
                                  !.failed_in = "transform"]
            /\ pc' = "except"
            /\ UNCHANGED <<sync_status, sync_log>>
       ELSE LET records == transform(cur.entity, cur.raw)
            IN  IF NotRecords(records)
                THEN /\ CompleteSync(TRUE, 0, "NULL", cur.year, cur.round_num)
                     /\ cur' = [cur EXCEPT !.records = records, !.ret = "True"]
                     /\ pc' = "returned"
                ELSE /\ cur' = [cur EXCEPT !.records = records,
                                           !.snap = tables]
                     /\ pc' = "load"
                     /\ UNCHANGED <<sync_status, sync_log>>
    /\ UNCHANGED <<now, tables, id_seq, inv, queue, results, used, loaded_ok,
                   probe>>

(* lines 119-131: transform, then the empty check *)
Transform ==
    /\ pc = "transform"
    /\ IF cur.entity \in PreSeasonEntities
       THEN /\ cur' = [cur EXCEPT !.records = Archive(cur.entity),
                                  !.snap = tables]
            /\ pc' = "load"
            /\ UNCHANGED <<sync_status, sync_log>>
       ELSE IF TransformRaises(cur.entity, cur.raw)
       THEN /\ cur' = [cur EXCEPT !.exc = "TransformError",
                                  !.failed_in = "transform"]
            /\ pc' = "except"
            /\ UNCHANGED <<sync_status, sync_log>>
       ELSE LET records == transform(cur.entity, cur.raw)
            IN  IF NotRecords(records)
                THEN /\ CompleteSync(TRUE, 0, "NULL", NULL, NULL)
                     /\ cur' = [cur EXCEPT !.records = records, !.ret = "True"]
                     /\ pc' = "returned"
                ELSE /\ cur' = [cur EXCEPT !.records = records,
                                           !.snap = tables]
                     /\ pc' = "load"
                     /\ UNCHANGED <<sync_status, sync_log>>
    /\ UNCHANGED <<now, tables, id_seq, inv, queue, results, used, loaded_ok,
                   probe>>

(* transform raises on a payload of an unexpected shape *)
TransformFails ==
    /\ pc = "transform"
    /\ CanFault
    /\ used' = Fault
    /\ cur' = [cur EXCEPT !.exc = "TransformError", !.failed_in = "transform"]
    /\ pc' = "except"
    /\ UNCHANGED <<now, dbVars, inv, queue, results, loaded_ok, probe>>

(* the rows load would write, at most: where an execute can fail *)
Writes ==
    IF cur.entity \in PreSeasonEntities
    THEN IF Len(cur.records) > Cardinality(tables[cur.entity])
         THEN Len(cur.records) - Cardinality(tables[cur.entity]) ELSE 0
    ELSE Len(cur.records)

(* line 138: load(records); fail_at is the execute that raises, 0 for none *)
LoadStep(fail_at) ==
    /\ pc = "load"
    /\ fail_at # 0 => CanFault
    /\ used' = IF fail_at # 0 THEN Fault ELSE used
    /\ LET e == cur.entity
           res == IF e \in PreSeasonEntities
                  THEN BulkLoad(e, tables[e], id_seq[e], cur.records, fail_at)
                  ELSE Load(e, tables[e], cur.records, fail_at) @@
                       [seq |-> id_seq[e]]
       IN  /\ tables' = [tables EXCEPT ![e] = res.table]
           /\ id_seq' = [id_seq EXCEPT ![e] = res.seq]
           /\ IF res.raised
              THEN /\ cur' = [cur EXCEPT !.exc = "LoadError",
                                         !.failed_in = "load",
                                         !.fail_at = fail_at,
                                         !.load_called = TRUE]
                   /\ pc' = "except"
                   /\ UNCHANGED loaded_ok
              ELSE /\ cur' = [cur EXCEPT !.count = res.count,
                                         !.load_called = TRUE]
                   /\ pc' = "complete"
                   /\ loaded_ok' = [loaded_ok EXCEPT ![e] = @ \cup {cur.year}]
    /\ UNCHANGED <<now, sync_status, sync_log, inv, queue, results, probe>>

(* lines 140-160: the watermark from kwargs and the successful completion *)
Complete ==
    /\ pc = "complete"
    /\ CompleteSync(TRUE, cur.count, "NULL", cur.year, cur.round_num)
    /\ cur' = [cur EXCEPT !.ret = "True"]
    /\ pc' = "returned"
    /\ UNCHANGED <<now, tables, id_seq, inv, queue, results, used, loaded_ok,
                   probe>>

(* lines 162-176: the handler of every exception of the steps above *)
ExceptPropagates ==
    /\ pc = "except"
    /\ cur' = [cur EXCEPT !.ret = "raised"]
    /\ pc' = "returned"
    /\ UNCHANGED <<now, dbVars, inv, queue, results, used, loaded_ok, probe>>

ExceptNoComplete ==
    /\ pc = "except"
    /\ cur' = [cur EXCEPT !.ret = "False"]
    /\ pc' = "returned"
    /\ UNCHANGED <<now, dbVars, inv, queue, results, used, loaded_ok, probe>>

Except ==
    /\ pc = "except"
    /\ IF Truthy(cur.log_id)
       THEN CompleteSync(FALSE, 0, cur.exc, NULL, NULL)
       ELSE UNCHANGED <<sync_status, sync_log>>
    /\ cur' = [cur EXCEPT !.ret = "False"]
    /\ pc' = "returned"
    /\ UNCHANGED <<now, tables, id_seq, inv, queue, results, used, loaded_ok,
                   probe>>

-----------------------------------------------------------------------------
(* main.py: F1Pipeline *)

ModeArgs  == Modes \cup {"bogus"}
RoundArgs == {NULL} \cup (1..MaxRound)

Detail(table, status, records, error) ==
    [table |-> table, status |-> status, records |-> records, error |-> error]

(* the accounting without the branch for 'skipped' *)
TallyWithoutSkipped(res, detail) ==
    [res EXCEPT
        !.details = Append(@, detail),
        !.tables_processed = @ + 1,
        !.tables_succeeded = IF detail.status = "success" THEN @ + 1 ELSE @,
        !.tables_failed    = IF detail.status = "failed"  THEN @ + 1 ELSE @]

(* run_mode, lines 111-119: the accounting of one _process_table result *)
Tally(res, detail) ==
    [res EXCEPT
        !.details = Append(@, detail),
        !.tables_processed = @ + 1,
        !.tables_succeeded = IF detail.status = "success" THEN @ + 1 ELSE @,
        !.tables_failed    = IF detail.status = "failed"  THEN @ + 1 ELSE @,
        !.tables_skipped   = IF detail.status = "skipped" THEN @ + 1 ELSE @]

NewRun(table, year, round_num, raw_zip) ==
    [NoCur EXCEPT !.entity = table, !.year = year, !.round_num = round_num,
                  !.raw_zip = raw_zip]

(* run_mode, lines 61-106: up to the loop; the archive is fetched for the
   pre_season mode only *)
RunMode(mode, year, force) ==
    /\ pc = "idle"
    /\ results' = NoResults
    /\ cur' = NoCur
    /\ IF LOAD_MODES(mode) = <<>>
       THEN /\ inv' = [NoInv EXCEPT !.kind = "mode", !.mode = mode,
                                     !.year = year, !.force = force,
                                     !.outcome = "Unknown mode"]
            /\ queue' = <<>>
            /\ pc' = "done"
       ELSE /\ inv' = [NoInv EXCEPT !.kind = "mode", !.mode = mode,
                                     !.year = year, !.force = force,
                                     !.raw_zip = (mode = "pre_season")]
            /\ queue' = LOAD_MODES(mode)
            /\ pc' = "process"
    /\ UNCHANGED <<now, dbVars, used, loaded_ok, probe>>

(* run_mode, line 105: get_raw_zip raises and run_mode with it *)
RunModeZipFails(year, force) ==
    /\ pc = "idle"
    /\ CanFault
    /\ used' = Fault
    /\ results' = NoResults
    /\ cur' = NoCur
    /\ inv' = [NoInv EXCEPT !.kind = "mode", !.mode = "pre_season",
                             !.year = year, !.force = force,
                             !.outcome = "raised"]
    /\ queue' = <<>>
    /\ pc' = "done"
    /\ UNCHANGED <<now, dbVars, loaded_ok, probe>>

ProcessTableNoForce ==
    /\ pc = "process"
    /\ queue # <<>>
    /\ LET table_name == Head(queue)
           next_round == get_next_round_to_load(table_name, inv.year)
           skip(error) ==
               /\ results' = Tally(results,
                      Detail(table_name,
                             IF error = "NULL" THEN "skipped" ELSE "failed",
                             0, error))
               /\ queue' = Tail(queue)
               /\ UNCHANGED <<pc, cur>>
           run(round_num) ==
               /\ cur' = NewRun(table_name, inv.year, round_num, inv.raw_zip)
               /\ pc' = "start_sync"
               /\ UNCHANGED <<results, queue>>
       IN  IF ~should_load(table_name, inv.year)
           THEN skip("NULL")
           ELSE IF inv.mode # "post_race" THEN run(NULL)
           ELSE IF get_next_round_raises(table_name) THEN skip("TypeError")
           ELSE IF Truthy(next_round) THEN run(next_round)
           ELSE skip("NULL")
    /\ UNCHANGED <<now, dbVars, inv, used, loaded_ok, probe>>

(* _process_table, lines 169-216: the gate, the round, the loader's run *)
ProcessTable ==
    /\ pc = "process"
    /\ queue # <<>>
    /\ LET table_name == Head(queue)
           next_round == get_next_round_to_load(table_name, inv.year)
           skip(error) ==
               /\ results' = Tally(results,
                      Detail(table_name,
                             IF error = "NULL" THEN "skipped" ELSE "failed",
                             0, error))
               /\ queue' = Tail(queue)
               /\ UNCHANGED <<pc, cur>>
           run(round_num) ==
               /\ cur' = NewRun(table_name, inv.year, round_num, inv.raw_zip)
               /\ pc' = "start_sync"
               /\ UNCHANGED <<results, queue>>
       IN  IF ~(inv.force \/ should_load(table_name, inv.year))
           THEN skip("NULL")
           ELSE IF inv.mode # "post_race" THEN run(NULL)
           ELSE IF get_next_round_raises(table_name) THEN skip("TypeError")
           ELSE IF Truthy(next_round) THEN run(next_round)
           ELSE skip("NULL")
    /\ UNCHANGED <<now, dbVars, inv, used, loaded_ok, probe>>

RecordRunHalts ==
    /\ pc = "returned"
    /\ inv.kind = "mode"
    /\ results' = Tally(results,
          IF cur.ret = "True"
          THEN Detail(cur.entity, "success",
                      get_watermark(cur.entity).total_records, "NULL")
          ELSE Detail(cur.entity, "failed", 0, "Loader returned False"))
    /\ queue' = IF cur.ret = "True" THEN Tail(queue) ELSE <<>>
    /\ pc' = "process"
    /\ UNCHANGED <<now, dbVars, inv, cur, used, loaded_ok, probe>>

(* _process_table, lines 218-237, and the accounting of run_mode's loop *)
RecordRun ==
    /\ pc = "returned"
    /\ inv.kind = "mode"
    /\ results' = Tally(results,
          IF cur.ret = "True"
          THEN Detail(cur.entity, "success",
                      get_watermark(cur.entity).total_records, "NULL")
          ELSE Detail(cur.entity, "failed", 0, "Loader returned False"))
    /\ queue' = Tail(queue)
    /\ pc' = "process"
    /\ UNCHANGED <<now, dbVars, inv, cur, used, loaded_ok, probe>>

(* run_mode, lines 121-127: the loop is over, the summary is returned *)
FinishMode ==
    /\ pc = "process"
    /\ queue = <<>>
    /\ inv' = [inv EXCEPT !.outcome = "done"]
    /\ pc' = "done"
    /\ UNCHANGED <<now, dbVars, queue, results, cur, used, loaded_ok, probe>>

RunTableGated(table_name, year, round_num) ==
    /\ pc = "idle"
    /\ results' = NoResults
    /\ queue' = <<>>
    /\ IF table_name \notin Entities \/ ~should_load(table_name, year)
       THEN /\ inv' = [NoInv EXCEPT !.kind = "table", !.table = table_name,
                                     !.year = year, !.round_num = round_num,
                                     !.outcome = "False"]
            /\ cur' = NoCur
            /\ pc' = "done"
       ELSE /\ inv' = [NoInv EXCEPT !.kind = "table", !.table = table_name,
                                     !.year = year, !.round_num = round_num]
            /\ cur' = NewRun(table_name, year,
                             IF Truthy(round_num) THEN round_num ELSE NULL,
                             FALSE)
            /\ pc' = "start_sync"
    /\ UNCHANGED <<now, dbVars, used, loaded_ok, probe>>

(* run_table, lines 129-160: no gate; round_num is passed when truthy *)
RunTable(table_name, year, round_num) ==
    /\ pc = "idle"
    /\ results' = NoResults
    /\ queue' = <<>>
    /\ IF table_name \notin Entities
       THEN /\ inv' = [NoInv EXCEPT !.kind = "table", !.table = table_name,
                                     !.year = year, !.round_num = round_num,
                                     !.outcome = "False"]
            /\ cur' = NoCur
            /\ pc' = "done"
       ELSE /\ inv' = [NoInv EXCEPT !.kind = "table", !.table = table_name,
                                     !.year = year, !.round_num = round_num]
            /\ cur' = NewRun(table_name, year,
                             IF Truthy(round_num) THEN round_num ELSE NULL,
                             FALSE)
            /\ pc' = "start_sync"
    /\ UNCHANGED <<now, dbVars, used, loaded_ok, probe>>

(* run_table, lines 162-167 *)
FinishTable ==
    /\ pc = "returned"
    /\ inv.kind = "table"
    /\ inv' = [inv EXCEPT !.outcome = cur.ret]
    /\ pc' = "done"
    /\ UNCHANGED <<now, dbVars, queue, results, cur, used, loaded_ok, probe>>

(* _process_table, lines 186-232: should_load or get_next_round_to_load
   raises (the warehouse connection is lost); the handler of line 229
   records the entity as failed and run_mode's loop goes on *)
ProcessTableRaises ==
    /\ pc = "process"
    /\ queue # <<>>
    /\ CanFault
    /\ used' = Fault
    /\ results' = Tally(results,
                        Detail(Head(queue), "failed", 0, "OperationalError"))
    /\ queue' = Tail(queue)
    /\ UNCHANGED <<now, dbVars, inv, pc, cur, loaded_ok, probe>>

(* main, lines 363-381: neither --table nor --mode was given; --year has a
   default, so the validation of line 338 lets the process through and it
   ends without a command *)
NoCommand(year) ==
    /\ pc = "idle"
    /\ inv' = [NoInv EXCEPT !.kind = "none", !.year = year,
                             !.outcome = "done"]
    /\ pc' = "done"
    /\ UNCHANGED <<now, dbVars, queue, results, cur, used, loaded_ok, probe>>

(* main, lines 345-356: psycopg2.connect raises *)
ConnectFails ==
    /\ pc = "idle"
    /\ CanFault
    /\ used' = Fault
    /\ inv' = [NoInv EXCEPT !.kind = "connect", !.outcome = "raised"]
    /\ pc' = "done"
    /\ UNCHANGED <<now, dbVars, queue, results, cur, loaded_ok, probe>>

(* main, lines 383-385: KeyboardInterrupt while a command runs; no
   `except Exception` on the way catches it, the open transaction is lost
   with the connection *)
Interrupt ==
    /\ pc \notin {"idle", "done"}
    /\ CanFault
    /\ used' = Fault
    /\ inv' = [inv EXCEPT !.outcome = "interrupted"]
    /\ pc' = "done"
    /\ UNCHANGED <<now, dbVars, queue, results, cur, loaded_ok, probe>>

(* main, lines 363-397: the status the process exits with *)
ExitCode ==
    CASE inv.outcome = "interrupted" -> 130
      [] inv.kind = "none" -> 0
      [] inv.kind = "table" -> IF inv.outcome = "True" THEN 0 ELSE 1
      [] inv.kind = "mode" /\ inv.outcome = "done" ->
            IF results.tables_failed = 0 THEN 0 ELSE 1
      [] OTHER -> 1

(* config.py line 183: the calendar year of the day the process starts *)
CURRENT_SEASON == YearOf(Today)

(* main, lines 372-374: `--mode M [--year Y]`; argparse admits the modes of
   LOAD_MODES only; run_mode(args.mode) is called with the mode alone, so
   year and force take run_mode's defaults; cli_year is args.year as typed,
   NULL when --year is absent *)
MainMode(mode, cli_year) ==
    /\ pc = "idle"
    /\ results' = NoResults
    /\ cur' = NoCur
    /\ inv' = [NoInv EXCEPT !.kind = "mode", !.mode = mode,
                             !.year = CURRENT_SEASON, !.force = FALSE,
                             !.raw_zip = (mode = "pre_season"),
                             !.cli_year = cli_year]
    /\ queue' = LOAD_MODES(mode)
    /\ pc' = "process"
    /\ UNCHANGED <<now, dbVars, used, loaded_ok, probe>>

(* main, lines 363-397: one command per process.  The next process starts
   on the warehouse the last one left. *)
Restart ==
    /\ pc = "done"
    /\ used.invocations < MaxInvocations
    /\ used' = [used EXCEPT !.invocations = @ + 1]
    /\ pc' = "idle"
    /\ inv' = NoInv
    /\ queue' = <<>>
    /\ results' = NoResults
    /\ cur' = NoCur
    /\ UNCHANGED <<now, dbVars, loaded_ok, probe>>

(* a day passes between two processes *)
Tick ==
    /\ pc = "done"
    /\ Today < MaxDay
    /\ now' = now + TicksPerDay
    /\ UNCHANGED <<dbVars, procVars, probe>>

-----------------------------------------------------------------------------
(* The warehouse a process finds when it starts *)

EmptyTables ==
    [e \in Entities |-> IF e \in PreSeasonEntities THEN {} ELSE <<>>]

RowsOf(seq) == {seq[i] : i \in 1..Len(seq)}

(* the warehouse after `--mode pre_season` of FirstYear ran without a
   failure (reached from the empty warehouse under SpecSeq) *)
PreSeasonOrder == LOAD_MODES("pre_season")

LoadedTables ==
    [e \in Entities |->
        IF e \in PreSeasonEntities THEN RowsOf(Archive(e)) ELSE <<>>]

LoadedSeq ==
    [e \in Entities |->
        IF e \in PreSeasonEntities THEN MaxId(RowsOf(Archive(e))) ELSE 0]

LoadedLog ==
    [i \in 1..Len(PreSeasonOrder) |->
        [entity_name |-> PreSeasonOrder[i], status |-> "success",
         records_affected |-> Len(Archive(PreSeasonOrder[i])),
         error_message |-> "NULL"]]

LoadedStatus(at) ==
    [e \in Entities |->
        IF e \in PreSeasonEntities
        THEN [FreshRow EXCEPT !.status = "success", !.last_sync = at,
                              !.season_year = FirstYear,
                              !.total_records = Len(Archive(e))]
        ELSE FreshRow]

LoadedOk ==
    [e \in Entities |-> IF e \in PreSeasonEntities THEN {FirstYear} ELSE {}]

InitProcess ==
    /\ pc = "idle"
    /\ inv = NoInv
    /\ queue = <<>>
    /\ results = NoResults
    /\ cur = NoCur
    /\ used = [invocations |-> 0, faults |-> 0]
    /\ probe = NoProbe

InitEmpty ==
    /\ now = StartDay * TicksPerDay
    /\ sync_status \in {[e \in Entities |-> FreshRow],
                        [e \in Entities |-> NoRow]}
    /\ sync_log = <<>>
    /\ tables = EmptyTables
    /\ id_seq = [e \in Entities |-> 0]
    /\ loaded_ok = [e \in Entities |-> {}]
    /\ InitProcess

InitLoaded ==
    /\ now = StartDay * TicksPerDay
    /\ sync_status \in {LoadedStatus(now), [e \in Entities |-> NoRow]}
    /\ sync_log = LoadedLog
    /\ tables = LoadedTables
    /\ id_seq = LoadedSeq
    /\ loaded_ok = LoadedOk
    /\ InitProcess

Init == InitEmpty \/ InitLoaded

Command ==
    \/ \E mode \in ModeArgs, year \in Years, force \in BOOLEAN :
          RunMode(mode, year, force)
    \/ \E year \in Years, force \in BOOLEAN : RunModeZipFails(year, force)
    \/ \E t \in Entities \cup {"bogus"}, year \in Years, r \in RoundArgs :
          RunTable(t, year, r)
    \/ \E year \in Years : NoCommand(year)
    \/ ConnectFails
    \/ Interrupt
    \/ ProcessTable
    \/ ProcessTableRaises
    \/ StartSync
    \/ \E falsy \in BOOLEAN : Extract(falsy)
    \/ ExtractRaises
    \/ Transform
    \/ TransformFails
    \/ \E fail_at \in 0..Writes : LoadStep(fail_at)
    \/ Complete
    \/ Except
    \/ RecordRun
    \/ FinishMode
    \/ FinishTable

(* one process: one command on the warehouse it finds *)
Next == Command

Spec == Init /\ [][Next]_vars

(* run_mode alone, on a warehouse whose sync_status holds a row for every
   entity; the process is sequential: when it can take a step it takes it *)
InitSeeded == Init /\ \A e \in Entities : sync_status[e].present

NextMode ==
    \/ \E mode \in ModeArgs, year \in Years, force \in BOOLEAN :
          RunMode(mode, year, force)
    \/ \E year \in Years, force \in BOOLEAN : RunModeZipFails(year, force)
    \/ Interrupt
    \/ ProcessTable
    \/ ProcessTableRaises
    \/ StartSync
    \/ \E falsy \in BOOLEAN : Extract(falsy)
    \/ ExtractRaises
    \/ Transform
    \/ TransformFails
    \/ \E fail_at \in 0..Writes : LoadStep(fail_at)
    \/ Complete
    \/ Except
    \/ RecordRun
    \/ FinishMode

SpecFair == InitSeeded /\ [][NextMode]_vars /\ WF_vars(NextMode)

(* the command line `--mode M [--year Y]` *)
NextCli ==
    \/ \E mode \in Modes, cli_year \in Years \cup {NULL} :
          MainMode(mode, cli_year)
    \/ Interrupt
    \/ ProcessTable
    \/ ProcessTableRaises
    \/ StartSync
    \/ \E falsy \in BOOLEAN : Extract(falsy)
    \/ ExtractRaises
    \/ Transform
    \/ TransformFails
    \/ \E fail_at \in 0..Writes : LoadStep(fail_at)
    \/ Complete
    \/ Except
    \/ RecordRun
    \/ FinishMode

SpecCli == Init /\ [][NextCli]_vars

(* processes that run a mode one after the other on the loaded warehouse:
   the later ones find the watermarks the earlier ones wrote; the source
   answers every request, with a payload or with nothing, so no step of a
   run raises *)
NextModes ==
    \/ \E mode \in Modes, year \in Years, force \in BOOLEAN :
          RunMode(mode, year, force)
    \/ ProcessTable
    \/ StartSync
    \/ \E falsy \in BOOLEAN : Extract(falsy)
    \/ Transform
    \/ LoadStep(0)
    \/ Complete
    \/ RecordRun
    \/ FinishMode
    \/ Restart

InitModes == InitSeeded /\ InitLoaded

SpecModes == InitModes /\ [][NextModes]_vars

(* a sequence of processes, from the empty warehouse *)
NextSeq == Command \/ Restart \/ Tick

SpecSeq == InitEmpty /\ [][NextSeq]_vars

(* the loaded warehouse of InitLoaded is a warehouse SpecSeq reaches *)
LoadedReached ==
    /\ pc = "done"
    /\ sync_status = LoadedStatus(now)
    /\ sync_log = LoadedLog
    /\ tables = LoadedTables
    /\ id_seq = LoadedSeq
    /\ loaded_ok = LoadedOk

LoadedReachedNoRow ==
    /\ pc = "done"
    /\ sync_status = [e \in Entities |-> NoRow]
    /\ sync_log = LoadedLog
    /\ tables = LoadedTables
    /\ id_seq = LoadedSeq
    /\ loaded_ok = LoadedOk

-----------------------------------------------------------------------------
(* The watermark store queried directly: should_load and
   get_next_round_to_load on a drawn watermark row and schedule *)

(* the schedules drawn: any part of two rounds a year *)
ScheduleRounds ==
    {[id |-> 1, date |-> 0, number |-> 1],
     [id |-> 2, date |-> 1, number |-> 2],
     [id |-> 3, date |-> DaysPerYear, number |-> 1],
     [id |-> 4, date |-> DaysPerYear + 1, number |-> 2]}

SprintSession == [id |-> 2, round_id |-> 1, type |-> "SR", number |-> 3]

(* the rows complete_sync can leave: the season is written whenever the
   round is, and neither before the first success *)
SyncedRows(stamps) ==
    {row \in {[FreshRow EXCEPT !.status = "success", !.last_sync = t,
                               !.season_year = y, !.round_number = r] :
                 t \in stamps, y \in {NULL} \cup Years,
                 r \in {NULL} \cup (1..MaxRound)} :
        row.season_year = NULL => row.round_number = NULL}

ProbeDays == {BufferDays, BufferDays + 1}

InitStore(e, row, rounds, sessions) ==
    /\ sync_status = [x \in Entities |-> IF x = e THEN row ELSE FreshRow]
    /\ sync_log = <<>>
    /\ tables = [EmptyTables EXCEPT !["round"] = rounds,
                                    !["session"] = sessions]
    /\ id_seq = [x \in Entities |-> 0]
    /\ loaded_ok = [x \in Entities |-> {}]
    /\ pc = "idle"
    /\ inv = NoInv
    /\ queue = <<>>
    /\ results = NoResults
    /\ cur = NoCur
    /\ used = [invocations |-> 0, faults |-> 0]
    /\ probe = [NoProbe EXCEPT !.entity = e]

(* a post-race entity synced at any time up to now *)
InitWMTime ==
    \E e \in PostRaceEntities, rounds \in SUBSET ScheduleRounds,
       sessions \in SUBSET {SprintSession} :
        /\ now \in {t \in Ticks : t \div TicksPerDay \in ProbeDays}
        /\ \E row \in SyncedRows(0..now) :
              /\ row.season_year = FirstYear
              /\ row.round_number = NULL
              /\ InitStore(e, row, rounds, sessions)

(* any entity, whatever season and round its watermark holds *)
InitWMSeason ==
    \E e \in Entities, rounds \in SUBSET ScheduleRounds,
       row \in {NoRow, FreshRow} \cup SyncedRows({0}) :
        /\ now = StartDay * TicksPerDay
        /\ InitStore(e, row, rounds, {})

InitWM == InitWMTime \/ InitWMSeason

CallShouldLoad(entity_name, current_season) ==
    /\ probe' = [probe EXCEPT !.fn = "should_load",
                              !.season = current_season,
                              !.should = should_load(entity_name,
                                                     current_season)]
    /\ UNCHANGED <<now, dbVars, procVars>>

CallGetNextRound(entity_name, current_season) ==
    /\ ~get_next_round_raises(entity_name)
    /\ probe' = [probe EXCEPT !.fn = "get_next_round_to_load",
                              !.season = current_season,
                              !.next_round = get_next_round_to_load(
                                                entity_name, current_season)]
    /\ UNCHANGED <<now, dbVars, procVars>>

NextWM ==
    \/ \E season \in Years : CallShouldLoad(probe.entity, season)
    \/ \E season \in Years : CallGetNextRound(probe.entity, season)

SpecWM == InitWM /\ [][NextWM]_vars

(* the watermark of the entity queried, and the events of the season *)
Asked == get_watermark(probe.entity)

Events ==
    IF probe.entity = "sprint_result"
    THEN {r \in RoundsOf(probe.season) : HasSprint(r)}
    ELSE RoundsOf(probe.season)

(* C3: should_load is true for every entity of the registry whose watermark
   was never set, whatever the season *)
C3_NeverSyncedLoads ==
    (probe.fn = "should_load" /\ Asked.last_sync = NULL) => probe.should

C3_Witness ==
    /\ probe.fn = "should_load"
    /\ probe.entity = "race_result"
    /\ sync_status[probe.entity].present
    /\ Asked.last_sync = NULL
    /\ RoundsOf(probe.season) = {}
    /\ probe.should

(* C4: for a pre-season entity synced before, should_load(year) is true
   exactly when the season last synced is null or before year (so false
   when it is year) *)
C4_PreSeasonOncePerSeason ==
    (/\ probe.fn = "should_load"
     /\ probe.entity \in PreSeasonEntities
     /\ Asked.last_sync # NULL) =>
        /\ probe.should <=>
              (Asked.season_year = NULL \/ Asked.season_year < probe.season)
        /\ Asked.season_year = probe.season => ~probe.should

C4_Witness ==
    /\ probe.fn = "should_load"
    /\ probe.entity \in PreSeasonEntities
    /\ Asked.last_sync # NULL
    /\ Asked.season_year = probe.season
    /\ ~probe.should

(* C5: for a post-race entity synced before, should_load is true exactly
   when the season has an event dated BufferDays or more before today and
   after last_sync less GraceDays; for sprint_result, counting the events
   with a sprint session only *)
C5_PostRaceBufferWindow ==
    (/\ probe.fn = "should_load"
     /\ probe.entity \in PostRaceEntities
     /\ Asked.last_sync # NULL) =>
        (probe.should <=>
            \E r \in Events :
                /\ r.date + BufferDays <= Today
                /\ Midnight(r.date) + GraceDays * TicksPerDay > Asked.last_sync)

C5_Witness ==
    /\ probe.fn = "should_load"
    /\ probe.entity = "driver_championship"
    /\ Asked.last_sync # NULL
    /\ probe.should
    /\ \E r \in Events : r.date + BufferDays = Today
    /\ \A r \in Events : r.date + BufferDays >= Today

(* C6: get_next_round_to_load is 1 for an entity never synced; with the
   watermark in the season asked, it is last_round + 1 when the season's
   schedule has a later round, and None when last_round is its last round *)
C6_NextRound ==
    probe.fn = "get_next_round_to_load" =>
        /\ Asked.last_sync = NULL => probe.next_round = 1
        /\ (/\ Asked.season_year = probe.season
            /\ Asked.round_number # NULL
            /\ \E r \in RoundsOf(probe.season) :
                  r.number > Asked.round_number)
              => probe.next_round = Asked.round_number + 1
        /\ (/\ Asked.season_year = probe.season
            /\ Asked.round_number # NULL
            /\ \E r \in RoundsOf(probe.season) :
                  r.number = Asked.round_number
            /\ \A r \in RoundsOf(probe.season) :
                  r.number <= Asked.round_number)
              => probe.next_round = NULL

C6_Witness ==
    /\ probe.fn = "get_next_round_to_load"
    /\ Asked.season_year = probe.season
    /\ Asked.round_number = 1
    /\ MaxRoundOf(probe.season) = 2
    /\ probe.next_round = 2

(* C7: whenever the watermark's season is behind the season asked,
   get_next_round_to_load is 1, wherever last_round stands against the
   schedule of the season asked *)
C7_SeasonMismatchFirst ==
    (/\ probe.fn = "get_next_round_to_load"
     /\ Asked.season_year # NULL
     /\ Asked.season_year < probe.season) => probe.next_round = 1

C7_Witness ==
    /\ probe.fn = "get_next_round_to_load"
    /\ Asked.season_year # NULL
    /\ Asked.season_year < probe.season
    /\ Asked.round_number # NULL
    /\ RoundsOf(probe.season) # {}
    /\ Asked.round_number >= MaxRoundOf(probe.season)
    /\ probe.next_round = 1

-----------------------------------------------------------------------------
(* The watermark store's write side called directly: start_sync, then
   complete_sync, on a drawn sync_status row *)

OldTotals == {0, 3}

InitStoreCalls ==
    \E e \in Entities, row \in {NoRow, FreshRow} \cup SyncedRows({0}),
       total \in OldTotals :
        /\ now = StartDay * TicksPerDay
        /\ row.last_sync = NULL => total = 0
        /\ InitStore(e, [row EXCEPT !.total_records = total], {}, {})

CallStartSync(entity_name) ==
    /\ probe.fn = "NULL"
    /\ sync_status' = start_sync_status(entity_name)
    /\ sync_log' = start_sync_log(entity_name)
    /\ cur' = [cur EXCEPT !.entity = entity_name,
                          !.log_id = Len(sync_log) + 1]
    /\ probe' = [probe EXCEPT !.fn = "start_sync"]
    /\ UNCHANGED <<now, tables, id_seq, pc, inv, queue, results, used,
                   loaded_ok>>

CallCompleteSync(entity_name, log_id, success, records_affected, error_message, wm_year, wm_round) ==
    /\ probe.fn = "start_sync"
    /\ sync_log' = complete_sync_log(log_id, success, records_affected,
                                     error_message)
    /\ sync_status' = complete_sync_status(entity_name, success,
                          records_affected, error_message, wm_year, wm_round)
    /\ probe' = [probe EXCEPT
                    !.fn = "complete_sync",
                    !.args = [success |-> success,
                              records_affected |-> records_affected,
                              error_message |-> error_message,
                              wm_year |-> wm_year, wm_round |-> wm_round]]
    /\ UNCHANGED <<now, tables, id_seq, procVars>>

(* the calls BaseLoader.run makes: a success carries a count and maybe a
   watermark, a failure the error's text *)
NextStore ==
    \/ CallStartSync(probe.entity)
    \/ \E records_affected \in {0, 2}, wm_year \in {NULL} \cup Years,
          wm_round \in {NULL} \cup (1..MaxRound) :
          CallCompleteSync(probe.entity, cur.log_id, TRUE, records_affected,
                           "NULL", wm_year, wm_round)
    \/ CallCompleteSync(probe.entity, cur.log_id, FALSE, 0, "boom",
                        NULL, NULL)

SpecStore == InitStoreCalls /\ [][NextStore]_vars

(* C13: on an entity's sync_status row, complete_sync(success) adds
   records_affected to total_records, stamps the last successful sync with
   now, sets 'success', clears the error and overwrites season and round
   with the watermark's values where given (else leaves them);
   complete_sync(failure) sets 'failed' and the error and nothing else *)
C13_CompleteSyncMerges ==
    [][(probe'.fn = "complete_sync" /\ sync_status[probe.entity].present) =>
          LET old == sync_status[probe.entity]
              new == sync_status'[probe.entity]
              a   == probe'.args
          IN  /\ \A x \in Entities \ {probe.entity} :
                    sync_status'[x] = sync_status[x]
              /\ IF a.success
                 THEN /\ new.total_records =
                            old.total_records + a.records_affected
                      /\ new.last_sync = now
                      /\ new.status = "success"
                      /\ new.error = "NULL"
                      /\ new.season_year =
                            IF a.wm_year # NULL THEN a.wm_year
                            ELSE old.season_year
                      /\ new.round_number =
                            IF a.wm_round # NULL THEN a.wm_round
                            ELSE old.round_number
                      /\ new.present
                 ELSE new = [old EXCEPT !.status = "failed",
                                        !.error = a.error_message]]_vars

C13_Witness ==
    /\ probe.fn = "complete_sync"
    /\ probe.args.success
    /\ probe.args.records_affected = 2
    /\ probe.args.wm_year = FirstYear + 1
    /\ probe.args.wm_round = NULL
    /\ sync_status[probe.entity].season_year = FirstYear + 1
    /\ sync_status[probe.entity].round_number = 1
    /\ sync_status[probe.entity].total_records = 5
    /\ sync_status[probe.entity].status = "success"

(* C15: after start_sync and a successful complete_sync, get_watermark
   of the entity has a last-sync timestamp and the season, round and
   count recorded, also when the entity had no sync_status row *)
C15_WatermarkCreated ==
    (probe.fn = "complete_sync" /\ probe.args.success) =>
        /\ Asked.last_sync # NULL
        /\ Asked.total_records >= probe.args.records_affected
        /\ probe.args.wm_year # NULL => Asked.season_year = probe.args.wm_year
        /\ probe.args.wm_round # NULL =>
              Asked.round_number = probe.args.wm_round

(* no row: both calls update nothing and the entity stays never synced *)
C15_StillNeverSynced ==
    /\ probe.fn = "complete_sync"
    /\ probe.args.success
    /\ probe.args.records_affected = 2
    /\ probe.args.wm_year = FirstYear
    /\ ~sync_status[probe.entity].present
    /\ LogOf(cur.log_id).status = "success"
    /\ Asked.last_sync = NULL
    /\ Asked.total_records = 0

(* how often a load is applied to one batch *)
MaxLoads == 2

-----------------------------------------------------------------------------
(* PreSeasonLoader.load applied directly: the warehouse table holds the
   first n rows of the archive's file, the dump its first m rows *)

InitBulk ==
    \E e \in PreSeasonEntities :
    \E n \in 0..Len(Archive(e)), m \in 0..Len(Archive(e)) :
    \E seqval \in 0..n :
        /\ now = StartDay * TicksPerDay
        /\ sync_status = [x \in Entities |-> FreshRow]
        /\ sync_log = <<>>
        /\ tables = [EmptyTables EXCEPT
                        ![e] = RowsOf(SubSeq(Archive(e), 1, n))]
        /\ id_seq = [x \in Entities |-> IF x = e THEN seqval ELSE 0]
        /\ loaded_ok = [x \in Entities |-> {}]
        /\ pc = "load"
        /\ inv = NoInv
        /\ queue = <<>>
        /\ results = NoResults
        /\ cur = [NoCur EXCEPT !.entity = e, !.year = FirstYear,
                               !.raw = Zip,
                               !.records = SubSeq(Archive(e), 1, m)]
        /\ used = [invocations |-> 0, faults |-> 0]
        /\ probe = [NoProbe EXCEPT !.entity = e]

(* load(records); snap keeps the tables the call found *)
ApplyBulkLoad ==
    /\ pc = "load"
    /\ probe.calls < MaxLoads
    /\ LET e == cur.entity
           res == BulkLoad(e, tables[e], id_seq[e], cur.records, 0)
       IN  /\ tables' = [tables EXCEPT ![e] = res.table]
           /\ id_seq' = [id_seq EXCEPT ![e] = res.seq]
           /\ cur' = [cur EXCEPT !.count = res.count, !.load_called = TRUE,
                                 !.snap = tables]
    /\ probe' = [probe EXCEPT !.fn = "bulk_load", !.calls = @ + 1]
    /\ UNCHANGED <<now, sync_status, sync_log, pc, inv, queue, results,
                   used, loaded_ok>>

NextBulk == ApplyBulkLoad

SpecBulk == InitBulk /\ [][NextBulk]_vars

(* C23: on a table of n rows and a dump of m rows in the same append
   order, load inserts exactly the last m - n rows of the dump when m > n
   and then sets the id sequence to the table's maximum id; it inserts
   nothing when m <= n *)
C23_BulkDiff ==
    [][probe'.fn = "bulk_load" =>
          LET e == cur.entity
              n == Cardinality(tables[e])
              m == Len(cur.records)
          IN  IF m > n
              THEN /\ tables'[e] =
                         tables[e] \cup
                         {cur.records[i] : i \in (n + 1)..m}
                   /\ Cardinality(tables'[e]) = m
                   /\ id_seq'[e] = MaxId(tables'[e])
              ELSE /\ tables' = tables
                   /\ id_seq' = id_seq]_vars

C23_Witness ==
    /\ probe.fn = "bulk_load"
    /\ probe.calls = 1
    /\ cur.entity = "session"
    /\ Cardinality(cur.snap["session"]) = Len(Archive("session")) - 2
    /\ tables["session"] = RowsOf(Archive("session"))
    /\ id_seq["session"] = Len(Archive("session"))
    /\ cur.count = 2

-----------------------------------------------------------------------------
(* loaders/base_loader.py: convert_time_to_ms, and the lap times of
   QualifyingResultLoader.transform.

   A lap-time string is None, a text without the form M:SS.mmm, or
   M:SS.mmm, kept as its minutes and its thousandths of a second.  Python
   computes int((int(minutes) * 60 + float(seconds)) * 1000) in IEEE-754
   binary64, rounding to nearest-even after float(), after the sum and
   after the product, and int() truncates.  The operators below compute
   that result exactly with integers: every value is followed as the exact
   quotient T / 1000 plus a rounding error counted in units of
   1 / (1000 * 2^p1), p1 the number of fraction bits of float(seconds). *)

MaxMinutes == 1

NoTime      == [shape |-> "None", minutes |-> 0, thousandths |-> 0]
Unparsable  == [shape |-> "text", minutes |-> 0, thousandths |-> 0]

LapTime(minutes, thousandths) ==
    [shape |-> "M:SS.mmm", minutes |-> minutes, thousandths |-> thousandths]

LapTimes(max_minutes) ==
    {LapTime(m, n) : m \in 0..max_minutes, n \in 0..59999}

(* floor(log2(n / 1000)) for n >= 1: the exponent of the float n / 1000 *)
RECURSIVE Binade(_)
Binade(n) ==
    IF n >= 2000 THEN 1 + Binade(n \div 2)
    ELSE IF n < 1000 THEN Binade(2 * n) - 1
    ELSE 0

RECURSIVE ILog2(_)
ILog2(n) == IF n < 2 THEN 0 ELSE 1 + ILog2(n \div 2)

(* (t * 2^k) mod modulus *)
RECURSIVE DoubleMod(_, _, _)
DoubleMod(t, k, modulus) ==
    IF k = 0 THEN t % modulus
    ELSE DoubleMod((2 * t) % modulus, k - 1, modulus)

(* round to nearest, ties to even: a2 is A mod 2D; the result is what is
   added to A to reach the multiple of D it rounds to *)
RoundDelta(a2, D) ==
    LET r == a2 % D
        odd == a2 \div D
    IN  IF 2 * r < D THEN 0 - r
        ELSE IF 2 * r > D THEN D - r
        ELSE IF odd = 1 THEN D - r ELSE 0 - r

(* int((minutes * 60 + float("SS.mmm")) * 1000) *)
FloatMs(minutes, thousandths) ==
    LET T  == 60000 * minutes + thousandths
        p1 == 52 - Binade(thousandths)
        s1 == RoundDelta(DoubleMod(thousandths % 2000, p1, 2000), 1000)
        p2 == 52 - Binade(T)
        D  == 1000 * 2 ^ (p1 - p2)
        a  == (DoubleMod(T % (2 * D), p1, 2 * D) + s1 + 2 * D) % (2 * D)
        err == IF minutes = 0 THEN s1 ELSE s1 + RoundDelta(a, D)
        p3 == IF err < 0 /\ 2 ^ ILog2(T) = T THEN 53 - ILog2(T)
              ELSE 52 - ILog2(T)
    IN  IF thousandths = 0 THEN T
        ELSE IF err < 0 - 2 ^ (p1 - p3 - 1) THEN T - 1
        ELSE T

(* the milliseconds the string M:SS.mmm denotes *)
ExactMs(time_str) == 60000 * time_str.minutes + time_str.thousandths

convert_time_to_ms(time_str) ==
    IF time_str.shape # "M:SS.mmm" THEN NULL
    ELSE FloatMs(time_str.minutes, time_str.thousandths)

(* lines 191-208: the lap-time fields of one qualifying record *)
QualifyingTimes(result) ==
    [q1_time |-> result.Q1,
     q1_time_milliseconds |-> convert_time_to_ms(result.Q1),
     q2_time |-> result.Q2,
     q2_time_milliseconds |-> convert_time_to_ms(result.Q2),
     q3_time |-> result.Q3,
     q3_time_milliseconds |-> convert_time_to_ms(result.Q3)]

(* one result of a qualifying payload: Q1 is any lap time, Q2 a time of
   the second segment or missing, Q3 present or not *)
InitQualifying ==
    \E q1 \in LapTimes(MaxMinutes) \cup {NoTime, Unparsable}, q3 \in BOOLEAN :
        /\ now = StartDay * TicksPerDay
        /\ sync_status = [x \in Entities |-> FreshRow]
        /\ sync_log = <<>>
        /\ tables = LoadedTables
        /\ id_seq = LoadedSeq
        /\ loaded_ok = LoadedOk
        /\ pc = "transform"
        /\ inv = NoInv
        /\ queue = <<>>
        /\ results = NoResults
        /\ cur = [NoCur EXCEPT !.entity = "qualifying_result",
                               !.year = FirstYear, !.round_num = 1]
        /\ used = [invocations |-> 0, faults |-> 0]
        /\ probe = [NoProbe EXCEPT
                      !.entity = "qualifying_result",
                      !.result = [Q1 |-> q1,
                                  Q2 |-> IF q1.shape = "M:SS.mmm"
                                         THEN LapTime(1, 23456) ELSE q1,
                                  Q3 |-> IF q3 THEN q1 ELSE NoTime]]

TransformQualifying ==
    /\ pc = "transform"
    /\ cur' = [cur EXCEPT !.records = <<QualifyingTimes(probe.result)>>]
    /\ pc' = "load"
    /\ probe' = [probe EXCEPT !.fn = "transform"]
    /\ UNCHANGED <<now, dbVars, inv, queue, results, used, loaded_ok>>

NextQualifying == TransformQualifying

SpecQualifying == InitQualifying /\ [][NextQualifying]_vars

(* C24: the qualifying record of a result without Q3 has q3_time and
   q3_time_milliseconds null; every lap time M:SS.mmm is converted to its
   whole number of milliseconds; a missing or unparsable one gives null *)
C24_LapTimesInMs ==
    (probe.fn = "transform" /\ pc = "load") =>
        LET rec == cur.records[1]
            Converted(time_str, ms) ==
                IF time_str.shape = "M:SS.mmm" THEN ms = ExactMs(time_str)
                ELSE ms = NULL
        IN  /\ probe.result.Q3 = NoTime =>
                 rec.q3_time = NoTime /\ rec.q3_time_milliseconds = NULL
            /\ Converted(probe.result.Q1, rec.q1_time_milliseconds)
            /\ Converted(probe.result.Q2, rec.q2_time_milliseconds)
            /\ Converted(probe.result.Q3, rec.q3_time_milliseconds)

(* 1:02.026 becomes 62025 ms; 1:23.456 becomes 83456 ms; no Q3 gives nulls *)
C24_OffByOne ==
    /\ probe.fn = "transform"
    /\ probe.result.Q1 = LapTime(1, 2026)
    /\ probe.result.Q2 = LapTime(1, 23456)
    /\ probe.result.Q3 = NoTime
    /\ cur.records[1].q1_time_milliseconds = 62025
    /\ cur.records[1].q2_time_milliseconds = 83456
    /\ cur.records[1].q3_time = NoTime
    /\ cur.records[1].q3_time_milliseconds = NULL

-----------------------------------------------------------------------------
(* Two pipeline processes on one warehouse: run_table in this process, and
   the watermark-store calls of a second process's loader run (its
   start_sync, and later its complete_sync), interleaved in any order *)

ConcEntities == {"driver", "race_result"}

InitConc == InitLoaded /\ \A e \in Entities : sync_status[e].present

PeerStartSync(entity_name) ==
    /\ probe.fn = "NULL"
    /\ sync_status' = start_sync_status(entity_name)
    /\ sync_log' = start_sync_log(entity_name)
    /\ probe' = [probe EXCEPT !.fn = "start_sync", !.entity = entity_name,
                              !.log_id = Len(sync_log) + 1]
    /\ UNCHANGED <<now, tables, id_seq, procVars>>

PeerCompleteSync(success) ==
    /\ probe.fn = "start_sync"
    /\ sync_log' = complete_sync_log(probe.log_id, success, 0,
                        IF success THEN "NULL" ELSE "SourceError")
    /\ sync_status' = complete_sync_status(probe.entity, success, 0,
                        IF success THEN "NULL" ELSE "SourceError", NULL, NULL)
    /\ probe' = [probe EXCEPT !.fn = "complete_sync"]
    /\ UNCHANGED <<now, tables, id_seq, procVars>>

NextConc ==
    \/ \E t \in ConcEntities, year \in Years, r \in RoundArgs :
          RunTable(t, year, r)
    \/ StartSync
    \/ \E falsy \in BOOLEAN : Extract(falsy)
    \/ ExtractRaises
    \/ Transform
    \/ TransformFails
    \/ \E fail_at \in 0..Writes : LoadStep(fail_at)
    \/ Complete
    \/ Except
    \/ FinishTable
    \/ \E e \in ConcEntities : PeerStartSync(e)
    \/ \E success \in BOOLEAN : PeerCompleteSync(success)

SpecConc == InitConc /\ [][NextConc]_vars

(* C25: start_sync excludes nobody: a process about to call it can always
   do so, also while the entity is 'running' for the other process *)
C25_StartSyncNeverBlocks ==
    /\ pc = "start_sync" => ENABLED StartSync
    /\ probe.fn = "NULL" => \A e \in ConcEntities : ENABLED PeerStartSync(e)

(* both processes are between start_sync and complete_sync for the same
   entity: two 'running' log rows of it at once *)
C25_BothRunning ==
    /\ pc \in {"extract", "transform", "load", "complete"}
    /\ probe.fn = "start_sync"
    /\ probe.entity = cur.entity
    /\ probe.log_id # cur.log_id
    /\ LogOf(cur.log_id).status = "running"
    /\ LogOf(probe.log_id).status = "running"
    /\ LogOf(cur.log_id).entity_name = cur.entity
    /\ LogOf(probe.log_id).entity_name = cur.entity
    /\ sync_status[cur.entity].status = "running"

-----------------------------------------------------------------------------
(* api_client.py: _make_request, one action per attempt of its loop.  The
   remote source answers each attempt as it likes; probe.result is the
   sequence of answers received, probe.calls the requests sent. *)

API_MAX_RETRIES == 3

Responses == {"200", "404", "4xx", "5xx", "timeout", "error"}
Retryable == {"5xx", "timeout", "error"}

InitApi ==
    \E e \in PostRaceEntities, year \in Years, round_num \in 1..MaxRound :
        /\ now = StartDay * TicksPerDay
        /\ sync_status = [x \in Entities |-> FreshRow]
        /\ sync_log = <<>>
        /\ tables = LoadedTables
        /\ id_seq = LoadedSeq
        /\ loaded_ok = LoadedOk
        /\ pc = "extract"
        /\ inv = NoInv
        /\ queue = <<>>
        /\ results = NoResults
        /\ cur = NewRun(e, year, round_num, FALSE)
        /\ used = [invocations |-> 0, faults |-> 0]
        /\ probe = [NoProbe EXCEPT !.fn = "request", !.entity = e]

_make_request_unbounded(response) ==
    /\ probe.fn = "request"
    /\ probe.calls < API_MAX_RETRIES
    /\ probe' = [probe EXCEPT
                    !.calls = @ + 1,
                    !.result = Append(@, response),
                    !.fn = IF response \in {"200", "404"} THEN "returned"
                           ELSE IF response = "4xx" THEN "raised"
                           ELSE "request"]
    /\ cur' = [cur EXCEPT
                  !.raw = IF response = "200"
                          THEN ApiResponse(cur.entity, cur.year, cur.round_num)
                          ELSE IF response = "404" THEN NoRaces
                          ELSE @,
                  !.exc = IF probe'.fn = "raised" THEN "JolpicaAPIError"
                          ELSE @]
    /\ UNCHANGED <<now, dbVars, pc, inv, queue, results, used, loaded_ok>>

_make_request_retry_4xx(response) ==
    /\ probe.fn = "request"
    /\ probe.calls < API_MAX_RETRIES
    /\ probe' = [probe EXCEPT
                    !.calls = @ + 1,
                    !.result = Append(@, response),
                    !.fn = IF response \in {"200", "404"} THEN "returned"
                           ELSE IF probe.calls = API_MAX_RETRIES - 1
                           THEN "raised"
                           ELSE "request"]
    /\ cur' = [cur EXCEPT
                  !.raw = IF response = "200"
                          THEN ApiResponse(cur.entity, cur.year, cur.round_num)
                          ELSE IF response = "404" THEN NoRaces
                          ELSE @,
                  !.exc = IF probe'.fn = "raised" THEN "JolpicaAPIError"
                          ELSE @]
    /\ UNCHANGED <<now, dbVars, pc, inv, queue, results, used, loaded_ok>>

(* lines 47-85: attempt number probe.calls of `for attempt in
   range(API_MAX_RETRIES)` and the handler of its answer *)
_make_request(response) ==
    /\ probe.fn = "request"
    /\ probe.calls < API_MAX_RETRIES
    /\ probe' = [probe EXCEPT
                    !.calls = @ + 1,
                    !.result = Append(@, response),
                    !.fn = IF response \in {"200", "404"} THEN "returned"
                           ELSE IF response = "4xx" THEN "raised"
                           ELSE IF probe.calls = API_MAX_RETRIES - 1
                           THEN "raised"
                           ELSE "request"]
    /\ cur' = [cur EXCEPT
                  !.raw = IF response = "200"
                          THEN ApiResponse(cur.entity, cur.year, cur.round_num)
                          ELSE IF response = "404" THEN NoRaces
                          ELSE @,
                  !.exc = IF probe'.fn = "raised" THEN "JolpicaAPIError"
                          ELSE @]
    /\ UNCHANGED <<now, dbVars, pc, inv, queue, results, used, loaded_ok>>

NextApi == \E response \in Responses : _make_request(response)

(* the loop is sequential code: the next attempt is made *)
SpecApi == InitApi /\ [][NextApi]_vars /\ WF_vars(NextApi)

(* C29: _make_request sends at most API_MAX_RETRIES requests; it goes on
   only after a timeout, a 5xx or a transport error; after the last of
   API_MAX_RETRIES such answers it raises JolpicaAPIError; it returns at
   the first answer that is a success; and it always ends *)
C29_BoundedRetries ==
    /\ [](/\ probe.calls = Len(probe.result)
          /\ probe.calls <= API_MAX_RETRIES
          /\ \A i \in 1..(Len(probe.result) - 1) :
                probe.result[i] \in Retryable
          /\ probe.fn = "request" =>
                /\ probe.calls < API_MAX_RETRIES
                /\ \A i \in 1..Len(probe.result) :
                      probe.result[i] \in Retryable
          /\ (probe.fn # "request" /\
              probe.result[Len(probe.result)] \in Retryable) =>
                /\ probe.calls = API_MAX_RETRIES
                /\ probe.fn = "raised"
                /\ cur.exc = "JolpicaAPIError"
          /\ (probe.fn # "request" /\
              probe.result[Len(probe.result)] = "200") =>
                /\ probe.fn = "returned"
                /\ cur.raw = ApiResponse(cur.entity, cur.year, cur.round_num))
    /\ <>(probe.fn \in {"returned", "raised"})

C29_Witness ==
    /\ probe.fn = "raised"
    /\ probe.calls = API_MAX_RETRIES
    /\ probe.result = <<"timeout", "5xx", "error">>
    /\ cur.exc = "JolpicaAPIError"

(* C30: a 404 or another 4xx ends _make_request at the attempt that
   received it: the 404 returns the empty sentinel, the other 4xx raises
   JolpicaAPIError, and no request follows *)
C30_ClientErrorsNotRetried ==
    \A i \in 1..Len(probe.result) :
        /\ probe.result[i] = "404" =>
              /\ i = Len(probe.result)
              /\ probe.fn = "returned"
              /\ cur.raw = NoRaces
        /\ probe.result[i] = "4xx" =>
              /\ i = Len(probe.result)
              /\ probe.fn = "raised"
              /\ cur.exc = "JolpicaAPIError"

C30_Witness ==
    /\ probe.result = <<"5xx", "4xx">>
    /\ probe.calls = 2
    /\ probe.fn = "raised"
    /\ cur.exc = "JolpicaAPIError"

-----------------------------------------------------------------------------
(* transform and load of a result or standing loader applied directly: the
   batch transform makes of a round's payload is loaded, and loaded again.
   The warehouse holds the schedule and any part of the archive's seasons,
   drivers and teams (an archive of an earlier day). *)


SessionIdOf(e) ==
    Lookup({r \in RowsOf(Archive("session")) :
                r.round_id = 1 /\ r.type = SessionType(e)})

(* what an earlier load of the round left for the archive's first driver
   (team), with other values *)
StaleRows(e) ==
    <<[season_id |-> 1, round_id |-> 1, session_id |-> SessionIdOf(e),
       driver_id |-> IF e = "team_championship" THEN NULL ELSE 1,
       team_id   |-> IF e = "driver_championship" THEN NULL ELSE 1,
       mut |-> 0, fix |-> 0]>>

InitLoad ==
    \E e \in ResultLoaders \cup StandingLoaders,
       seasons \in SUBSET RowsOf(Archive("season")),
       drivers \in SUBSET RowsOf(Archive("driver")),
       teams \in SUBSET RowsOf(Archive("team")),
       stale \in BOOLEAN :
        /\ now = StartDay * TicksPerDay
        /\ sync_status = [x \in Entities |-> FreshRow]
        /\ sync_log = <<>>
        /\ tables = [EmptyTables EXCEPT
                        !["season"] = seasons,
                        !["driver"] = drivers,
                        !["team"] = teams,
                        !["round"] = RowsOf(Archive("round")),
                        !["session"] = RowsOf(Archive("session")),
                        ![e] = IF stale THEN StaleRows(e) ELSE <<>>]
        /\ id_seq = [x \in Entities |-> 0]
        /\ loaded_ok = [x \in Entities |-> {}]
        /\ pc = "transform"
        /\ inv = NoInv
        /\ queue = <<>>
        /\ results = NoResults
        /\ cur = [NoCur EXCEPT !.entity = e, !.year = FirstYear,
                               !.round_num = 1,
                               !.raw = Data(e, FirstYear, 1)]
        /\ used = [invocations |-> 0, faults |-> 0]
        /\ probe = [NoProbe EXCEPT !.entity = e]

ApplyTransform ==
    /\ pc = "transform"
    /\ ~TransformRaises(cur.entity, cur.raw)
    /\ cur' = [cur EXCEPT !.records = transform(cur.entity, cur.raw)]
    /\ pc' = "load"
    /\ UNCHANGED <<now, dbVars, inv, queue, results, used, loaded_ok, probe>>

(* load(records) once more; snap keeps the tables the first load left *)
ApplyLoad ==
    /\ pc = "load"
    /\ cur.records # <<>>
    /\ probe.calls < MaxLoads
    /\ LET e == cur.entity
           res == Load(e, tables[e], cur.records, 0)
       IN  /\ tables' = [tables EXCEPT ![e] = res.table]
           /\ cur' = [cur EXCEPT !.count = res.count, !.load_called = TRUE,
                                 !.snap = IF probe.calls = 0 THEN tables'
                                          ELSE @]
    /\ probe' = [probe EXCEPT !.fn = "load", !.calls = @ + 1]
    /\ UNCHANGED <<now, sync_status, sync_log, id_seq, pc, inv, queue,
                   results, used, loaded_ok>>

NextLoad == ApplyTransform \/ ApplyLoad

SpecLoad == InitLoad /\ [][NextLoad]_vars

(* C10: loading a batch of transformed records twice leaves the loader's
   table with the rows, and the values, that loading it once leaves *)
C10_LoadTwiceAsOnce ==
    (probe.fn = "load" /\ probe.calls >= 2) =>
        tables[cur.entity] = cur.snap[cur.entity]

(* a standings batch with a record whose driver is unknown to the
   warehouse: each load adds the record again *)
C10_Duplicates ==
    /\ probe.fn = "load"
    /\ probe.calls = 2
    /\ cur.entity = "driver_championship"
    /\ \E i \in 1..Len(cur.records) : cur.records[i].driver_id = NULL
    /\ Len(tables[cur.entity]) > Len(cur.snap[cur.entity])

(* C11: an entry whose driver or constructor is unknown to the lookup maps
   is dropped by transform: no record of the batch has a null driver_id
   (team_id for the constructor standings) *)
C11_UnresolvedDropped ==
    (pc = "load" /\ cur.records # <<>>) =>
        \A i \in 1..Len(cur.records) :
            /\ cur.entity # "team_championship" =>
                  cur.records[i].driver_id # NULL
            /\ cur.entity # "driver_championship" =>
                  cur.records[i].team_id # NULL

(* the driver standings keep the entry of a driver the warehouse lacks *)
C11_NullForeignKey ==
    /\ pc = "load"
    /\ cur.entity = "driver_championship"
    /\ tables["driver"] = {[id |-> 1, reference |-> "d1"]}
    /\ Len(cur.records) = Len(cur.raw.entries)
    /\ \E i \in 1..Len(cur.records) : cur.records[i].driver_id = NULL

-----------------------------------------------------------------------------
(* Properties of BaseLoader.run and of the orchestrator, under Spec *)

(* C1: an exception raised by extract, transform or load never leaves run:
   run completes the log row it opened as failed, with the exception's
   message, and returns False *)
C1_RunContainsFailure ==
    (pc = "returned" /\ cur.failed_in \in {"extract", "transform", "load"}) =>
        /\ cur.ret = "False"
        /\ cur.log_id \in 1..Len(sync_log)
        /\ LogOf(cur.log_id).entity_name = cur.entity
        /\ LogOf(cur.log_id).status = "failed"
        /\ LogOf(cur.log_id).error_message = cur.exc

C1_Witness ==
    /\ pc = "returned"
    /\ cur.failed_in = "extract"
    /\ cur.exc = "SourceError"
    /\ cur.ret = "False"
    /\ LogOf(cur.log_id).status = "failed"
    /\ LogOf(cur.log_id).error_message = "SourceError"

(* extract returned, and what it returned is empty *)
EmptyPayload == cur.failed_in # "extract" /\ cur.raw.shape = "falsy"
(* transform returned, and it returned no record *)
NoRecords ==
    cur.failed_in = "NULL" /\ cur.raw.shape \notin {"falsy"} /\ cur.records = <<>>

(* C2: when extract yields an empty payload, or transform no record, load is
   not called, the log row is completed as a success with records_affected
   0, and run returns True *)
C2_EmptyIsZeroRecordSuccess ==
    (pc = "returned" /\ (EmptyPayload \/ NoRecords)) =>
        /\ ~cur.load_called
        /\ cur.ret = "True"
        /\ LogOf(cur.log_id).status = "success"
        /\ LogOf(cur.log_id).records_affected = 0

C2_Witness ==
    /\ pc = "returned"
    /\ NoRecords
    /\ cur.raw.shape = "norace"
    /\ cur.ret = "True"
    /\ ~cur.load_called
    /\ LogOf(cur.log_id).records_affected = 0

(* C8: no entity is loaded for a season before each of its declared
   dependencies was loaded successfully for that season *)
C8_DependenciesLoadedFirst ==
    pc = "complete" =>
        \A d \in Dependencies(cur.entity) : cur.year \in loaded_ok[d]

(* C9: a load that fails at a record of its batch leaves every table as it
   was before the call (none of the batch's rows, the rows of the entities
   processed before untouched), and the run's log row ends failed with the
   error's text *)
C9_FailedLoadRollsBack ==
    (cur.failed_in = "load" /\ pc \in {"except", "returned"}) =>
        /\ tables = cur.snap
        /\ pc = "returned" =>
              /\ LogOf(cur.log_id).status = "failed"
              /\ LogOf(cur.log_id).error_message = cur.exc

C9_Witness ==
    /\ pc = "returned"
    /\ cur.entity = "race_result"
    /\ cur.failed_in = "load"
    /\ Len(cur.records) = 2
    /\ cur.fail_at = 2
    /\ tables["race_result"] = <<>>
    /\ Len(tables["sprint_result"]) = 2
    /\ LogOf(cur.log_id).status = "failed"

(* C12: a not-found response to a post-race loader, nothing else going
   wrong, ends the run as a recorded success of zero records *)
C12_NotFoundIsEmptySuccess ==
    (/\ pc = "returned"
     /\ cur.entity \in PostRaceEntities
     /\ cur.raw.shape = "norace"
     /\ used.faults = 0) =>
        /\ cur.ret = "True"
        /\ LogOf(cur.log_id).status = "success"
        /\ LogOf(cur.log_id).records_affected = 0

(* the driver standings of a round that was not held: transform indexes the
   empty list of standings and the sync is recorded as failed *)
C12_NotFoundFails ==
    /\ pc = "returned"
    /\ cur.entity = "driver_championship"
    /\ cur.raw = NoRaces
    /\ used.faults = 0
    /\ cur.failed_in = "transform"
    /\ cur.ret = "False"
    /\ LogOf(cur.log_id).status = "failed"


(* C14: whenever run has returned, no sync_log row is still 'running' (each
   row run opened is 'success' or 'failed') and no entity's sync_status is
   left 'running' *)
C14_LogFinalized ==
    (pc \in {"returned", "process", "done"} /\ inv.outcome # "interrupted") =>
        /\ \A i \in 1..Len(sync_log) :
              sync_log[i].status \in {"success", "failed"}
        /\ \A e \in Entities : sync_status[e].status # "running"
        /\ pc = "returned" =>
              /\ cur.log_id \in 1..Len(sync_log)
              /\ LogOf(cur.log_id).entity_name = cur.entity
              /\ LogOf(cur.log_id).status =
                    IF cur.ret = "True" THEN "success" ELSE "failed"

C14_Witness ==
    /\ pc = "returned"
    /\ cur.failed_in = "extract"
    /\ cur.ret = "False"
    /\ sync_status[cur.entity].present
    /\ sync_status[cur.entity].status = "failed"
    /\ LogOf(cur.log_id).status = "failed"
    /\ Len(sync_log) > 1
    /\ \E i \in 1..(cur.log_id - 1) : sync_log[i].status = "success"


(* C16: in run_mode, a post-race entity that passed the gate starts its
   loader with round_num = get_next_round_to_load(entity, year), a round
   that exists (it is skipped when there is none) *)
C16_RoundResolved ==
    (pc = "start_sync" /\ inv.kind = "mode" /\
     cur.entity \in PostRaceEntities) =>
        /\ cur.round_num # NULL
        /\ cur.round_num = get_next_round_to_load(cur.entity, inv.year)

(* mode 'all': the loader starts with no round though one is pending *)
C16_AllRunsWithoutRound ==
    /\ pc = "start_sync"
    /\ inv.mode = "all"
    /\ ~inv.force
    /\ cur.entity = "race_result"
    /\ cur.round_num = NULL
    /\ ~get_next_round_raises(cur.entity)
    /\ get_next_round_to_load(cur.entity, inv.year) = 1

(* C17: in run_mode, a pre-season loader never calls its own extract: it
   is handed the archive that run_mode fetched once *)
C17_SharedArchive ==
    (pc \in {"extract", "transform"} /\ inv.kind = "mode" /\
     cur.entity \in PreSeasonEntities) => cur.raw_zip

(* mode 'all': a second pre-season loader has downloaded the archive itself *)
C17_AllExtractsPerLoader ==
    /\ pc = "transform"
    /\ inv.mode = "all"
    /\ ~inv.raw_zip
    /\ ~cur.raw_zip
    /\ cur.entity \in PreSeasonEntities
    /\ cur.raw = Zip
    /\ \E i \in 1..Len(results.details) :
          /\ results.details[i].table \in PreSeasonEntities
          /\ results.details[i].status = "success"


(* C19: the process exits 0 exactly when no entity failed: after run_mode
   returned, 0 iff no entity is recorded as failed; after run_table, 0 iff
   the loader's run returned True; 130 after an interrupt; non-zero for
   every other end of the process *)
C19_ExitCode ==
    pc = "done" =>
        CASE inv.outcome = "interrupted" -> ExitCode = 130
          [] inv.kind = "mode" /\ inv.outcome = "done" ->
                ExitCode = 0 <=>
                    \A i \in 1..Len(results.details) :
                        results.details[i].status # "failed"
          [] inv.kind = "table" /\ cur.ret # "NULL" ->
                ExitCode = 0 <=> cur.ret = "True"
          [] OTHER -> ExitCode # 0

(* the process was given no command and exits 0 *)
C19_NoCommandExitsZero ==
    /\ pc = "done"
    /\ inv.kind = "none"
    /\ sync_log = <<>>
    /\ ExitCode = 0

(* C20: an error of the watermark store while run_mode processes an entity
   ends run_mode: the entity it hit is the last one processed and run_mode
   raises *)
C20_StoreErrorAborts ==
    \A i \in 1..Len(results.details) :
        results.details[i].error = "OperationalError" =>
            /\ i = Len(results.details)
            /\ pc = "done" => inv.outcome = "raised"

(* the entity hit by the store's error is recorded as failed and the rest
   of the list is processed, the summary is returned *)
C20_BatchGoesOn ==
    /\ pc = "done"
    /\ inv.kind = "mode"
    /\ inv.outcome = "done"
    /\ results.details[1].error = "OperationalError"
    /\ results.details[1].status = "failed"
    /\ results.tables_processed = Len(LOAD_MODES(inv.mode))
    /\ \E j \in 2..Len(results.details) :
          results.details[j].status = "success"


FailedDetails ==
    {i \in 1..Len(results.details) : results.details[i].status = "failed"}

(* C18: in run_mode a failed entity does not end the batch: the entities
   processed and the entities still queued are always the mode's whole
   list, in order; tables_failed is the number of failed entities; and once
   an entity has failed with others still queued, run_mode goes on until
   every entity of the list is processed (unless the process is
   interrupted) *)
C18_BatchNotHalted ==
    /\ []((inv.kind = "mode" /\ inv.outcome \in {"NULL", "done"} /\
           LOAD_MODES(inv.mode) # <<>>) =>
            /\ LOAD_MODES(inv.mode) =
                  [i \in 1..Len(results.details) |->
                      results.details[i].table] \o queue
            /\ results.tables_processed = Len(results.details)
            /\ results.tables_failed = Cardinality(FailedDetails)
            /\ inv.outcome = "done" => queue = <<>>)
    /\ (inv.kind = "mode" /\ FailedDetails # {} /\ queue # <<>>) ~>
          (pc = "done" /\
           (inv.outcome = "interrupted" \/
            results.tables_processed = Len(LOAD_MODES(inv.mode))))

C18_Witness ==
    /\ pc = "done"
    /\ inv.kind = "mode"
    /\ inv.outcome = "done"
    /\ results.details[1].status = "failed"
    /\ results.details[1].error = "Loader returned False"
    /\ results.tables_failed = 1
    /\ results.tables_processed = Len(LOAD_MODES(inv.mode))
    /\ results.tables_succeeded >= 2


(* C21: run_table of a known entity starts the loader's run with the year
   and round it was given, whatever should_load and
   get_next_round_to_load would answer, and returns what run returned *)
C21_RunTableBypassesGate ==
    /\ [][(pc = "idle" /\ inv'.kind = "table" /\ inv'.table \in Entities) =>
             /\ pc' = "start_sync"
             /\ cur'.entity = inv'.table
             /\ cur'.year = inv'.year
             /\ cur'.round_num = inv'.round_num
             /\ ~cur'.raw_zip]_vars
    /\ []((pc = "done" /\ inv.kind = "table" /\ inv.table \in Entities /\
           inv.outcome # "interrupted") =>
             /\ cur.ret \in {"True", "False"}
             /\ inv.outcome = cur.ret
             /\ cur.entity = inv.table
             /\ LogOf(cur.log_id).entity_name = inv.table)

(* a pre-season entity already synced for this season, which should_load
   would skip, is loaded again *)
C21_Witness ==
    /\ pc = "done"
    /\ inv.kind = "table"
    /\ inv.table = "driver"
    /\ inv.year = FirstYear
    /\ inv.outcome = "True"
    /\ sync_status["driver"].present
    /\ sync_status["driver"].season_year = FirstYear
    /\ Len(sync_log) = Len(LoadedLog) + 1
    /\ LogOf(cur.log_id).entity_name = "driver"
    /\ LogOf(cur.log_id).status = "success"


(* C22: a mode run started with --year Y uses Y as the season of every
   entity: for the gate, the next round and the loader's year *)
C22_CliYearUsed ==
    (inv.kind = "mode" /\ inv.cli_year # NULL) =>
        /\ inv.year = inv.cli_year
        /\ pc \in {"start_sync", "extract", "transform", "load", "complete",
                   "except", "returned"} => cur.year = inv.cli_year

(* --year names another season than the calendar year's, and the loader
   runs for the calendar year *)
C22_CliYearIgnored ==
    /\ pc = "returned"
    /\ inv.kind = "mode"
    /\ inv.cli_year \in Years
    /\ inv.cli_year # CURRENT_SEASON
    /\ cur.year = CURRENT_SEASON
    /\ cur.ret = "True"
    /\ sync_status[cur.entity].present
    /\ sync_status[cur.entity].season_year = CURRENT_SEASON


(* C26: in every list of LOAD_MODES an entity comes after each of its
   dependencies that the list contains and no entity comes twice; the list
   of 'all' holds every registered entity; so whenever run_mode is about to
   process an entity, its dependencies of the same list were processed *)
C26_ListsRespectDependencies ==
    /\ \A mode \in Modes :
          \A i, j \in 1..Len(LOAD_MODES(mode)) :
              /\ LOAD_MODES(mode)[j] \in Dependencies(LOAD_MODES(mode)[i])
                    => j < i
              /\ i # j => LOAD_MODES(mode)[i] # LOAD_MODES(mode)[j]
    /\ RowsOf(LOAD_MODES("all")) = Entities
    /\ (inv.kind = "mode" /\ queue # <<>>) =>
          \A d \in Dependencies(Head(queue)) :
              d \in RowsOf(LOAD_MODES(inv.mode)) =>
                  \E i \in 1..Len(results.details) :
                      results.details[i].table = d

C26_Witness ==
    /\ pc = "start_sync"
    /\ inv.mode = "pre_season"
    /\ cur.entity = "team_driver"
    /\ Head(queue) = "team_driver"
    /\ \A d \in {"driver", "team", "season"} :
          \E i \in 1..Len(results.details) :
              /\ results.details[i].table = d
              /\ results.details[i].status = "success"


(* C27: with force, run_mode skips no entity at the strategy gate: an
   entity recorded as skipped is an entity of the post_race mode whose next
   round to load is None *)
C27_ForceSkipsGate ==
    (inv.kind = "mode" /\ inv.force) =>
        \A i \in 1..Len(results.details) :
            results.details[i].status = "skipped" =>
                /\ inv.mode = "post_race"
                /\ results.details[i].table \in PostRaceEntities
                /\ ~get_next_round_raises(results.details[i].table)
                /\ ~Truthy(get_next_round_to_load(results.details[i].table,
                                                  inv.year))

(* a forced post_race run of a later process starts the loader of an
   entity that should_load refuses, after it skipped an entity whose rounds
   are all loaded *)
C27_Witness ==
    /\ pc = "start_sync"
    /\ inv.mode = "post_race"
    /\ inv.force
    /\ cur.entity = Head(queue)
    /\ ~should_load(cur.entity, inv.year)
    /\ \E i \in 1..Len(results.details) :
          /\ results.details[i].status = "skipped"
          /\ sync_status[results.details[i].table].season_year = inv.year
          /\ sync_status[results.details[i].table].round_number =
                MaxRoundOf(inv.year)


(* C28: sync_log only grows, by the one 'running' row that a run's
   start_sync appends; the only row a step changes is the running row of
   the current run (its complete_sync), so rows of earlier syncs stay as
   they were; during a run its own row is the last one *)
C28_LogAppendOnly ==
    /\ [][/\ Len(sync_log') \in {Len(sync_log), Len(sync_log) + 1}
          /\ Len(sync_log') = Len(sync_log) + 1 <=>
                (pc = "start_sync" /\ pc' = "extract")
          /\ Len(sync_log') = Len(sync_log) + 1 =>
                /\ sync_log'[Len(sync_log')].status = "running"
                /\ sync_log'[Len(sync_log')].entity_name = cur.entity
                /\ cur'.log_id = Len(sync_log')
          /\ \A i \in 1..Len(sync_log) :
                sync_log'[i] # sync_log[i] =>
                    /\ i = cur.log_id
                    /\ pc' = "returned"
                    /\ sync_log[i].status = "running"
                    /\ sync_log'[i].entity_name = sync_log[i].entity_name
                    /\ sync_log'[i].status \in {"success", "failed"}]_vars
    /\ [](pc \in {"extract", "transform", "load", "complete", "except",
                  "returned"} => cur.log_id = Len(sync_log))

(* a later sync of an entity is completed with other values than an
   earlier sync of the same entity, whose row keeps its own *)
C28_Witness ==
    /\ pc = "returned"
    /\ used.invocations = 1
    /\ LogOf(cur.log_id).status = "success"
    /\ \E i \in (Len(LoadedLog) + 1)..(cur.log_id - 1) :
          /\ sync_log[i].entity_name = cur.entity
          /\ sync_log[i].status = "success"
          /\ sync_log[i].records_affected #
                LogOf(cur.log_id).records_affected


-----------------------------------------------------------------------------
(* Processes that run a mode or a single table one after the other on the
   loaded warehouse, the source answering every request *)

NextRuns ==
    \/ \E mode \in Modes, year \in Years, force \in BOOLEAN :
          RunMode(mode, year, force)
    \/ \E t \in Entities, year \in Years, r \in RoundArgs :
          RunTable(t, year, r)
    \/ ProcessTable
    \/ StartSync
    \/ Extract(FALSE)
    \/ Transform
    \/ LoadStep(0)
    \/ Complete
    \/ Except
    \/ RecordRun
    \/ FinishMode
    \/ FinishTable
    \/ Restart

SpecRuns == InitModes /\ [][NextRuns]_vars

(* (season, round) of a watermark row before another's, NULL first *)
WatermarkLe(old, new) ==
    \/ old.season_year < new.season_year
    \/ /\ old.season_year = new.season_year
       /\ old.round_number <= new.round_number

(* C31: over run_mode and run_table invocations of any year and round, no
   step lowers an entity's (last_season_year, last_round_number) in
   lexicographic order *)
C31_WatermarkMonotonic ==
    [][\A e \in Entities : WatermarkLe(sync_status[e], sync_status'[e])]_vars

(* a run for FirstYear succeeded on an entity loaded for the next year
   before: its watermark is back at FirstYear *)
C31_WatermarkWentBack ==
    /\ pc = "done"
    /\ inv.kind = "table"
    /\ inv.table = "race_result"
    /\ inv.year = FirstYear
    /\ inv.round_num = 1
    /\ inv.outcome = "True"
    /\ cur.count > 0
    /\ FirstYear + 1 \in loaded_ok["race_result"]
    /\ sync_status["race_result"].season_year = FirstYear
    /\ sync_status["race_result"].round_number = 1


-----------------------------------------------------------------------------
(* One command on a loaded warehouse in which a bulk table may hold rows
   that the archive no longer has: the dump is then shorter than the table *)

Withdrawn ==
    {[id |-> Len(Archive("driver")) + 1, reference |-> "w1"],
     [id |-> Len(Archive("driver")) + 2, reference |-> "w2"]}

InitGrown ==
    /\ now = StartDay * TicksPerDay
    /\ sync_status = LoadedStatus(now)
    /\ sync_log = LoadedLog
    /\ \E extra \in SUBSET Withdrawn :
          tables = [LoadedTables EXCEPT !["driver"] = @ \cup extra]
    /\ id_seq = [LoadedSeq EXCEPT !["driver"] = MaxId(tables["driver"])]
    /\ loaded_ok = LoadedOk
    /\ InitProcess

NextGrown ==
    \/ \E mode \in Modes, year \in Years, force \in BOOLEAN :
          RunMode(mode, year, force)
    \/ \E t \in Entities, year \in Years, r \in RoundArgs :
          RunTable(t, year, r)
    \/ ProcessTable
    \/ StartSync
    \/ Extract(FALSE)
    \/ Transform
    \/ LoadStep(0)
    \/ Complete
    \/ Except
    \/ RecordRun
    \/ FinishMode
    \/ FinishTable

SpecGrown == InitGrown /\ [][NextGrown]_vars

(* C32: every load returns a count >= 0 and no step lowers an entity's
   total_records, also when the dump of a bulk load has fewer rows than
   the warehouse table *)
C32_TotalNeverDecreases ==
    /\ [](pc = "complete" => cur.count >= 0)
    /\ [][\A e \in Entities :
            sync_status'[e].total_records >= sync_status[e].total_records]_vars

(* the bulk load of a dump two rows shorter than the table returned -2 and
   the successful sync took 2 off total_records *)
C32_NegativeCount ==
    /\ pc = "returned"
    /\ cur.entity = "driver"
    /\ cur.ret = "True"
    /\ Len(cur.records) = Cardinality(tables["driver"]) - 2
    /\ cur.count = 0 - 2
    /\ LogOf(cur.log_id).status = "success"
    /\ LogOf(cur.log_id).records_affected = 0 - 2
    /\ sync_status["driver"].total_records = Len(Archive("driver")) - 2


-----------------------------------------------------------------------------
(* `--mode post_race` run again and again for one season on the loaded
   warehouse, the clock and the schedule fixed, every request answered *)

CatchUpDays == BufferDays..MaxDay

InitCatchUp ==
    /\ now \in {Midnight(d) : d \in CatchUpDays}
    /\ sync_status = LoadedStatus(now)
    /\ sync_log = LoadedLog
    /\ tables = LoadedTables
    /\ id_seq = LoadedSeq
    /\ loaded_ok = LoadedOk
    /\ pc = "idle"
    /\ inv = NoInv
    /\ queue = <<>>
    /\ results = NoResults
    /\ cur = NoCur
    /\ used = [invocations |-> 0, faults |-> 0]
    /\ \E season \in Years : probe = [NoProbe EXCEPT !.season = season]

(* the next process, without end: the count of the processes stops at its
   bound, the processes do not *)
RestartForever ==
    /\ pc = "done"
    /\ used' = [used EXCEPT !.invocations =
                    IF @ < MaxInvocations THEN @ + 1 ELSE @]
    /\ pc' = "idle"
    /\ inv' = NoInv
    /\ queue' = <<>>
    /\ results' = NoResults
    /\ cur' = NoCur
    /\ UNCHANGED <<now, dbVars, loaded_ok, probe>>

NextCatchUp ==
    \/ RunMode("post_race", probe.season, FALSE)
    \/ ProcessTable
    \/ StartSync
    \/ Extract(FALSE)
    \/ Transform
    \/ LoadStep(0)
    \/ Complete
    \/ RecordRun
    \/ FinishMode
    \/ RestartForever

SpecCatchUp == InitCatchUp /\ [][NextCatchUp]_vars /\ WF_vars(NextCatchUp)

(* the events of entity e in the season that are older than the buffer
   window, as the gate of should_load selects them *)
OldEvents(e, season) ==
    {r \in RoundsOf(season) :
        /\ r.date <= Today - BufferDays
        /\ e = "sprint_result" => HasSprint(r)}

(* C33: repeated post_race runs of a season bring the watermark of each
   post-race entity to the round of the latest event older than the
   buffer window *)
C33_CatchUp ==
    \A e \in PostRaceEntities :
        <>(OldEvents(e, probe.season) # {} =>
              sync_status[e].round_number =
                  Latest(OldEvents(e, probe.season)).number)

(* the second run has skipped race_result at the gate while its watermark
   is one round short of the latest round older than the buffer window *)
C33_LeftBehind ==
    /\ pc = "done"
    /\ used.invocations > 0
    /\ \E i \in 1..Len(results.details) :
          /\ results.details[i].table = "race_result"
          /\ results.details[i].status = "skipped"
    /\ ~should_load("race_result", probe.season)
    /\ sync_status["race_result"].season_year = probe.season
    /\ sync_status["race_result"].round_number = 1
    /\ OldEvents("race_result", probe.season) # {}
    /\ Latest(OldEvents("race_result", probe.season)).number = 2
    /\ get_next_round_to_load("race_result", probe.season) = 2


(* C34: a post_race mode run that succeeds with data loads round 1 when
   the entity has no round recorded or its recorded season is an earlier
   one, and the recorded round plus 1 when the recorded season is the
   run's; it records the round it loaded, so the rounds loaded within a
   season are 1, 2, 3, ... without a gap or a repetition *)
C34_ConsecutiveRounds ==
    [][(pc = "complete" /\ pc' = "returned" /\ inv.mode = "post_race") =>
          LET old == sync_status[cur.entity]
              new == sync_status'[cur.entity]
          IN  /\ old.round_number = NULL \/ old.season_year < inv.year =>
                    cur.round_num = 1
              /\ old.round_number # NULL /\ old.season_year = inv.year =>
                    cur.round_num = old.round_number + 1
              /\ new.season_year = inv.year
              /\ new.round_number = cur.round_num
              /\ cur.round_num \in 1..MaxRoundOf(inv.year)]_vars

(* the second post_race run of a season has loaded round 2 of race_result
   after the first loaded round 1 *)
C34_Witness ==
    /\ pc = "returned"
    /\ used.invocations = 1
    /\ inv.mode = "post_race"
    /\ cur.entity = "race_result"
    /\ cur.round_num = 2
    /\ cur.count > 0
    /\ sync_status["race_result"].round_number = 2
    /\ \E i \in (Len(LoadedLog) + 1)..(cur.log_id - 1) :
          /\ sync_log[i].entity_name = "race_result"
          /\ sync_log[i].status = "success"
          /\ sync_log[i].records_affected > 0
    /\ Len(tables["race_result"]) = 2 * Len(RemoteEntries("race_result"))


(* C35: a run that ends at the empty check of extract or of transform
   leaves the season, the round and the total of the entity's row as they
   were, stamps the last successful sync with now, and
   get_next_round_to_load answers after it what it answered before it: in
   post_race mode the round of the run *)
C35_EmptyKeepsRound ==
    [][(pc \in {"extract", "transform"} /\ pc' = "returned"
            /\ cur'.ret = "True") =>
          LET e   == cur.entity
              old == sync_status[e]
              new == sync_status'[e]
          IN  /\ new.season_year = old.season_year
              /\ new.round_number = old.round_number
              /\ new.total_records = old.total_records
              /\ new.last_sync = now
              /\ new.status = "success"
              /\ \A season \in Years :
                    /\ get_next_round_raises(e)' = get_next_round_raises(e)
                    /\ get_next_round_to_load(e, season)' =
                          get_next_round_to_load(e, season)
              /\ inv.mode = "post_race" =>
                    get_next_round_to_load(e, inv.year)' = cur.round_num]_vars

(* a second post_race run asked for round 2 of sprint_result, which had no
   sprint: the watermark stays at round 1 and round 2 is the next again *)
C35_Witness ==
    /\ pc = "returned"
    /\ inv.mode = "post_race"
    /\ cur.entity = "sprint_result"
    /\ cur.round_num = 2
    /\ cur.raw.shape = "norace"
    /\ cur.records = <<>>
    /\ cur.ret = "True"
    /\ LogOf(cur.log_id).status = "success"
    /\ LogOf(cur.log_id).records_affected = 0
    /\ sync_status["sprint_result"].last_sync = now
    /\ sync_status["sprint_result"].season_year = inv.year
    /\ sync_status["sprint_result"].round_number = 1
    /\ get_next_round_to_load("sprint_result", inv.year) = 2


-----------------------------------------------------------------------------
(* `--mode post_race` of one season, process after process, forced or not,
   where one step of one run may raise *)

NextRetry ==
    \/ \E force \in BOOLEAN : RunMode("post_race", probe.season, force)
    \/ ProcessTable
    \/ StartSync
    \/ Extract(FALSE)
    \/ ExtractRaises
    \/ Transform
    \/ TransformFails
    \/ \E fail_at \in 0..Writes : LoadStep(fail_at)
    \/ Complete
    \/ Except
    \/ RecordRun
    \/ FinishMode
    \/ Restart

SpecRetry == InitCatchUp /\ [][NextRetry]_vars

(* C36: the complete_sync of a failed run changes the status and the error
   of the entity's row and nothing else: season, round, last successful
   sync and total stay; should_load and get_next_round_to_load answer for
   every entity and season what they answered before, and the next round
   of the entity is the round of the failed run *)
C36_FailureKeepsProgress ==
    [][(pc = "except" /\ pc' = "returned") =>
          LET e   == cur.entity
              old == sync_status[e]
              new == sync_status'[e]
          IN  /\ new = [old EXCEPT !.status = "failed", !.error = cur.exc]
              /\ new.season_year = old.season_year
              /\ new.round_number = old.round_number
              /\ new.last_sync = old.last_sync
              /\ new.total_records = old.total_records
              /\ tables' = tables
              /\ \A x \in Entities, season \in Years :
                    /\ should_load(x, season)' = should_load(x, season)
                    /\ get_next_round_to_load(x, season)' =
                          get_next_round_to_load(x, season)
              /\ get_next_round_to_load(e, inv.year)' = cur.round_num]_vars

(* the second process starts race_result for round 1 again: the load of
   round 1 failed in the first, which went on and loaded the standings *)
C36_Witness ==
    /\ pc = "start_sync"
    /\ used.invocations = 1
    /\ cur.entity = "race_result"
    /\ cur.round_num = 1
    /\ sync_status["race_result"].status = "failed"
    /\ sync_status["race_result"].round_number = NULL
    /\ sync_status["race_result"].last_sync = NULL
    /\ sync_status["race_result"].total_records = 0
    /\ tables["race_result"] = <<>>
    /\ sync_status["driver_championship"].round_number = 1
    /\ \E i \in 1..Len(sync_log) :
          /\ sync_log[i].entity_name = "race_result"
          /\ sync_log[i].status = "failed"
          /\ sync_log[i].error_message = "LoadError"


-----------------------------------------------------------------------------
(* `--mode pre_season` or `--mode post_race`, unforced, run again right
   after a first run: the clock and the source are as they were.  probe
   keeps the first run's mode, year and outcome and the length the log
   had when it ended. *)

InitRepeat ==
    /\ now \in {Midnight(d) : d \in CatchUpDays}
    /\ \/ /\ sync_status = [e \in Entities |-> FreshRow]
          /\ sync_log = <<>>
          /\ tables = EmptyTables
          /\ id_seq = [e \in Entities |-> 0]
          /\ loaded_ok = [e \in Entities |-> {}]
       \/ /\ sync_status = LoadedStatus(now)
          /\ sync_log = LoadedLog
          /\ tables = LoadedTables
          /\ id_seq = LoadedSeq
          /\ loaded_ok = LoadedOk
    /\ InitProcess

(* the process ends and the command is given again *)
Rerun ==
    /\ pc = "done"
    /\ used.invocations < MaxInvocations
    /\ used' = [used EXCEPT !.invocations = @ + 1]
    /\ probe' = [probe EXCEPT
                    !.fn = inv.mode,
                    !.season = inv.year,
                    !.should = /\ inv.outcome = "done"
                               /\ results.tables_succeeded =
                                     Len(LOAD_MODES(inv.mode)),
                    !.calls = Len(sync_log)]
    /\ pc' = "idle"
    /\ inv' = NoInv
    /\ queue' = <<>>
    /\ results' = NoResults
    /\ cur' = NoCur
    /\ UNCHANGED <<now, dbVars, loaded_ok>>

NextRepeat ==
    \/ \E mode \in {"pre_season", "post_race"}, year \in Years :
          RunMode(mode, year, FALSE)
    \/ ProcessTable
    \/ StartSync
    \/ Extract(FALSE)
    \/ Transform
    \/ LoadStep(0)
    \/ Complete
    \/ Except
    \/ RecordRun
    \/ FinishMode
    \/ Rerun

SpecRepeat == InitRepeat /\ [][NextRepeat]_vars

(* C37: when every entity of an unforced pre_season or post_race run
   succeeded, the run of the same mode and year that follows it at once
   skips every entity: no loader is started and sync_log gets no row *)
C37_RepeatSkipsAll ==
    (/\ used.invocations > 0
     /\ probe.should
     /\ inv.kind = "mode"
     /\ inv.mode = probe.fn
     /\ inv.year = probe.season) =>
        /\ pc \in {"process", "done"}
        /\ cur = NoCur
        /\ Len(sync_log) = probe.calls
        /\ \A i \in 1..Len(results.details) :
              results.details[i].status = "skipped"
        /\ results.tables_succeeded = 0
        /\ results.tables_failed = 0
        /\ pc = "done" =>
              results.tables_skipped = Len(LOAD_MODES(inv.mode))

(* the second post_race run of the season is over: five entities skipped,
   after a first run that loaded round 1 of the race results *)
C37_Witness ==
    /\ pc = "done"
    /\ used.invocations = 1
    /\ probe.should
    /\ probe.fn = "post_race"
    /\ inv.mode = "post_race"
    /\ inv.year = probe.season
    /\ results.tables_skipped = Len(LOAD_MODES("post_race"))
    /\ Len(tables["race_result"]) = Len(RemoteEntries("race_result"))
    /\ sync_status["race_result"].round_number = 1
    /\ Len(sync_log) = probe.calls


(* C38: after load(records) of a result loader every record is in the
   table as it is: the row with the record's natural key holds the
   record's value in every column the loader writes, also when a row with
   that key was there before with other values *)
C38_LastWriteWins ==
    (probe.fn = "load" /\ cur.entity \in ResultLoaders) =>
        \A i \in 1..Len(cur.records) :
            \E j \in 1..Len(tables[cur.entity]) :
                /\ KeyOf(cur.entity, tables[cur.entity][j]) =
                      KeyOf(cur.entity, cur.records[i])
                /\ tables[cur.entity][j] = cur.records[i]

(* race_result held a row of the driver with grid position 0; the record
   loaded over it has grid position 1 and another result: the row took the
   result and kept grid position 0 *)
C38_StaleGrid ==
    /\ probe.fn = "load"
    /\ probe.calls = 1
    /\ cur.entity = "race_result"
    /\ \E i \in 1..Len(cur.records) :
          /\ cur.records[i].fix = 1
          /\ \E j \in 1..Len(tables["race_result"]) :
                /\ KeyOf("race_result", tables["race_result"][j]) =
                      KeyOf("race_result", cur.records[i])
                /\ tables["race_result"][j].mut = cur.records[i].mut
                /\ tables["race_result"][j].fix = 0
                /\ tables["race_result"][j] # StaleRows("race_result")[1]


(* C39: in the summary of a run_mode with a known mode the entities
   processed are those succeeded, failed and skipped together, one detail
   each with one of these three as status, and when run_mode returns they
   are the entities of the mode's list, in its order *)
C39_SummaryAddsUp ==
    (inv.kind = "mode" /\ LOAD_MODES(inv.mode) # <<>>) =>
        /\ results.tables_processed =
              results.tables_succeeded + results.tables_failed
                 + results.tables_skipped
        /\ results.tables_processed = Len(results.details)
        /\ \A i \in 1..Len(results.details) :
              /\ results.details[i].status \in {"success", "failed", "skipped"}
              /\ results.details[i].table = LOAD_MODES(inv.mode)[i]
        /\ inv.outcome = "done" =>
              results.tables_processed = Len(LOAD_MODES(inv.mode))

(* a run of the 'all' mode returned with entities skipped, succeeded and
   failed *)
C39_Witness ==
    /\ pc = "done"
    /\ inv.kind = "mode"
    /\ inv.mode = "all"
    /\ inv.outcome = "done"
    /\ results.tables_processed = Len(LOAD_ORDER)
    /\ results.tables_skipped = Cardinality(PreSeasonEntities)
    /\ results.tables_succeeded > 0
    /\ results.tables_failed > 0


(* C40: run_mode with a mode that is not defined returns the error
   summary, and run_table with an entity that has no loader returns False;
   the step fetches no archive, starts no run and leaves sync_status,
   sync_log and the warehouse as they were *)
C40_UnknownRejected ==
    [][(/\ pc = "idle"
        /\ \/ inv'.kind = "mode" /\ inv'.mode \notin Modes
           \/ inv'.kind = "table" /\ inv'.table \notin Entities) =>
          /\ pc' = "done"
          /\ inv'.outcome =
                IF inv'.kind = "mode" THEN "Unknown mode" ELSE "False"
          /\ ~inv'.raw_zip
          /\ cur' = NoCur
          /\ queue' = <<>>
          /\ results' = NoResults
          /\ used' = used
          /\ UNCHANGED <<sync_status, sync_log, tables, id_seq>>]_vars

(* run_mode('bogus') has returned on the loaded warehouse: the log and
   the watermarks are those the process found *)
C40_Witness ==
    /\ pc = "done"
    /\ inv.kind = "mode"
    /\ inv.mode = "bogus"
    /\ inv.outcome = "Unknown mode"
    /\ ExitCode = 1
    /\ sync_log = LoadedLog
    /\ sync_status = LoadedStatus(now)
    /\ tables = LoadedTables
    /\ used.faults = 0

====
